---- MODULE Spec2Model ----
(***************************************************************************)
(* A model of the reactive entity store of src/src/entityStore.ts: a map   *)
(* from normalized key to a BehaviorSubject cell, one eviction timer per   *)
(* id, and the getOrSet pipeline                                           *)
(*   first() -> switchMap(entitySubject) -> switchMap(retry) -> distinct.  *)
(* Every store operation is synchronous; what an operation triggers in the *)
(* subscribers of a cell (rxjs delivers synchronously, re-entrantly) is    *)
(* part of the operation and is computed by the recursive operators below. *)
(* The store factory of src/src/entityStoreFactory.ts, a map from id to     *)
(* store, is modelled beside it.                                            *)
(***************************************************************************)
EXTENDS Integers, Sequences, FiniteSets, TLC

\* ------------------------------------------------------------------ bounds
MaxGet == 1        \* get() observables a run keeps at a time
MaxGos == 1        \* getOrSet() observables a run keeps at a time
MaxInvoke == 2     \* invocations of producers in a run
MaxDepth == 4      \* nested getOrSet calls inside one operation (call stack)
MaxAll == 1        \* getAll() subscriptions a run keeps at a time
MaxSrc == 1        \* promises and streams handed to set, setMany, delete at a time
MaxEmit == 2       \* values a producer's stream emits

\* ------------------------------------------------------------ ids, values
\* type Id = string | number (type.ts): the text "n" and the number n.
Str(n) == [t |-> "str", v |-> n]
Num(n) == [t |-> "num", v |-> n]
Ids == {Str(1), Num(1), Str(2)}

\* getCacheKey: the template string `${id}` turns the number n into the text "n"
getCacheKeyRaw(id) == id
getCacheKey(id) == Str(id.v)

\* An entity is an object; two entities are the same reference iff they are
\* the same record here (name tells apart objects with the same id).
Ent(id, name) == [id |-> id, name |-> name]
Undefined == [id |-> [t |-> "none", v |-> 0], name |-> 0]

\* config.idAccessor, by default (entity) => entity.id
idAccessor(entity) == entity.id

\* support.ts isDefined: !!value (an entity object is truthy, undefined is not)
isDefinedAlways(value) == TRUE
isDefined(value) == value # Undefined

\* support.ts isYbKey: typeof value is "string" or "number"
isYbKey(value) == DOMAIN value = {"t", "v"}

NoCell == 0
NoTimer == -1

\* constant.ts, with time counted in units of 100 ms
HUMAN_REACTION_TIME == 2
DEFAULT_CACHE_TIME == 6000

\* constant.ts DEFAULT_STORE_CONFIG (its idAccessor is the operator above)
DEFAULT_STORE_CONFIG == [defaultCacheTIme |-> DEFAULT_CACHE_TIME]

\* The constructor's this.config = {...DEFAULT_STORE_CONFIG, ...config}
mergeConfig(cfg) ==
    [defaultCacheTIme |-> IF "defaultCacheTIme" \in DOMAIN cfg
                          THEN cfg.defaultCacheTIme
                          ELSE DEFAULT_STORE_CONFIG.defaultCacheTIme]

\* The default of the parameter cacheTime of set, setMany and getOrSet
\* (cacheTime = DEFAULT_CACHE_TIME): the store's configuration is not read.
defaultCacheTime(cfg) == DEFAULT_CACHE_TIME

\* new BehaviorSubject(undefined)
FreshCell == [value |-> Undefined, observers |-> <<>>, closed |-> FALSE]

\* What a getOrSet observable is built from: the source is this.get(id) (a
\* captured cell) or this.set(getInput()) of a stream / promise not applied yet.
NoSrc == [kind |-> "none", cell |-> NoCell, val |-> Undefined]
GetSrc(c) == [kind |-> "get", cell |-> c, val |-> Undefined]
AsyncSrc(kind, v) == [kind |-> kind, cell |-> NoCell, val |-> v]
Level(ph, E, src) == [ph |-> ph, E |-> E, src |-> src]

NoProd == [kind |-> "none", id |-> Str(0), base |-> 0, fresh |-> FALSE]
IdleGet == [st |-> "idle", id |-> Str(0), cell |-> NoCell, last |-> Undefined, n |-> 0]
\* The stream that the producer of a getOrSet call returned last: val its first
\* value, out how many values it has emitted, sub the level of the getOrSet
\* pipeline that is subscribed to it (0: none).
NoStream == [val |-> Undefined, out |-> 0, sub |-> 0]
StreamOf(level) ==
    IF level.src.kind = "stream" THEN [val |-> level.src.val, out |-> 0, sub |-> 0]
    ELSE NoStream
IdleGos == [st |-> "idle", id |-> Str(0), prod |-> NoProd, ct |-> 0,
            levels |-> <<>>, last |-> Undefined, n |-> 0, deletes |-> FALSE,
            stream |-> NoStream]

GetRef(g) == [k |-> "get", n |-> g, lv |-> 0]
\* the i-th source of the combineLatest of getAll subscription a
AllRef(a, i) == [k |-> "all", n |-> a, lv |-> i]

\* A getAll() subscription: deb is the time left on its debounceTime timer,
\* inner the cells its combineLatest is subscribed to, vals the latest value of
\* each, snap the snapshot it emitted last (the elements of the array) and n
\* how many snapshots the last operation delivered.
\* the subscriber inside the stream that set(source i) returned
SrcRef(i) == [k |-> "src", n |-> i, lv |-> 0]

\* A promise or stream handed to set, setMany or delete (op): queue holds what
\* it will still produce and fails says whether it ends in an error; held is
\* the value of a resolved promise nobody has taken yet, failed says that the
\* source has ended in its error. The stream the operation returned is st; cell
\* is the cell its switchMap is subscribed to (set), applied the entities it
\* has written, n how many values the last operation delivered on it.
IdleSrc == [st |-> "idle", op |-> "none", kind |-> "none", queue |-> <<>>,
            fails |-> FALSE, ct |-> 0, held |-> <<>>, failed |-> FALSE,
            cell |-> NoCell, applied |-> {}, n |-> 0]

IdleAll == [st |-> "idle", deb |-> NoTimer, inner |-> <<>>, vals |-> <<>>,
            snap |-> {}, n |-> 0]
GosRef(j, lv) == [k |-> "gos", n |-> j, lv |-> lv]

\* The value a producer returns when n invocations came before: a new object
\* each time (as the test's getEntity), or always the same one.
ProducerResult(p, n) == Ent(p.id, p.base + (IF p.fresh THEN n ELSE 0))

\* ------------------------------------------------------------------- state
VARIABLES
    cache,      \* Map<Id, BehaviorSubject>: id -> cell (NoCell: no entry)
    cells,      \* the BehaviorSubject objects: value, observers, closed
    pend,       \* pendingDeletions: id -> time left on its timer (NoTimer: none)
    subs,       \* the get(id) observables of the run; last: the value its
                \* subscriber received last, n: how many the last operation delivered
    gos,        \* the getOrSet observables of the run, with last and n likewise
    inv,        \* how many times a producer (getInput) was invoked
    ovf,        \* the call stack overflowed in a getOrSet recursion
    written,    \* history: the keys that setSync has written a value to
    ttl,        \* history: the last set(e, T) call, and how much of T is left
    lastOp,     \* history: the operation that led to this state
    all,        \* the getAll() subscriptions of the run
    bus,        \* updateStream: "open", "stopped" (completed) or "closed"
    sig,        \* history: the updateStream.next() calls of the last operation
    threw,      \* history: the last operation ended in an exception
    burst,      \* history: the set calls for absent keys that followed one
                \* another under the getAll subscriptions within one debounce
                \* window, and the snapshots delivered since the first of them
    gone,       \* history: the entities that delete has removed, not set again
                \* since, up to the next snapshot of a getAll subscription
    srcs,       \* the promises and streams handed to set, setMany and delete,
                \* each with the stream that the operation returned
    config,     \* EntityStore.config
    stores,     \* EntityStoreFactory.stores: Map<Id, EntityStore>
    built       \* history: how many EntityStore objects have been constructed

vars == <<cache, cells, pend, subs, gos, inv, ovf, written, ttl, lastOp,
          all, bus, sig, threw, burst, gone, srcs, config, stores, built>>

\* EntityStoreFactoryRequest.id: the ids stores are requested under
FactoryIds == {Str(1), Num(1), Str(2), Str(3)}

\* stores.get(id) === undefined, and an EntityStore object: n tells the objects
\* apart (the n-th one constructed), config is what its constructor was given
NoStore == [n |-> 0, config |-> DEFAULT_STORE_CONFIG]
NewStore(n, cfg) == [n |-> n, config |-> mergeConfig(cfg)]

\* The object slots: enough for every cell a run can still refer to.
NCells == 2 * (MaxGet + MaxGos) + 4
CellIds == 1..NCells

\* The store as one value, so that an operation is a function on it.
\* (An operation starts with no value delivered and no value written by it yet.)
Store == [cache |-> cache, cells |-> cells, pend |-> pend,
          subs |-> [g \in DOMAIN subs |-> [subs[g] EXCEPT !.n = 0]],
          gos |-> [j \in DOMAIN gos |-> [gos[j] EXCEPT !.n = 0]],
          inv |-> inv, ovf |-> ovf, written |-> written, wrote |-> FALSE,
          all |-> [a \in DOMAIN all |-> [all[a] EXCEPT !.n = 0]],
          bus |-> bus, sig |-> 0, threw |-> FALSE,
          srcs |-> [i \in DOMAIN srcs |-> [srcs[i] EXCEPT !.n = 0]]]

\* The cells something can still reach: the map's, and those an observable or a
\* subscription captured. Any other cell is garbage.
Reachable(s) ==
    {s.cache[i] : i \in DOMAIN s.cache}
    \cup {s.subs[g].cell : g \in DOMAIN s.subs}
    \cup UNION {UNION {{s.gos[j].levels[l].E, s.gos[j].levels[l].src.cell} :
                           l \in DOMAIN s.gos[j].levels} : j \in DOMAIN s.gos}
    \cup UNION {{s.all[a].inner[i] : i \in DOMAIN s.all[a].inner} : a \in DOMAIN s.all}
    \cup {s.srcs[i].cell : i \in DOMAIN s.srcs}

\* The slot of a new object: one that nothing refers to.
FreeCell(s) ==
    LET live == Reachable(s)
        free == {c \in CellIds : c \notin live /\ s.cells[c] = FreshCell}
    IN  IF free = {} THEN NoCell ELSE CHOOSE c \in free : \A d \in free : c <= d

\* The garbage collector: an object nothing refers to is gone.
Collect(s) ==
    LET live == Reachable(s) IN
    [s EXCEPT !.cells = [c \in CellIds |->
        IF c \in live THEN s.cells[c] ELSE FreshCell]]

\* Objects have an identity, not a number: the cells are renumbered in the order
\* in which the map, the get observables, the getOrSet observables and the
\* getAll subscriptions refer to them, so that two states that differ only in the numbering are one state.
RefList(s) ==
    LET RECURSIVE Keys(_, _)
        Keys(S, acc) ==
            IF S = {} THEN acc
            ELSE LET i == CHOOSE x \in S : \A y \in S :
                              <<x.v, x.t>> = <<y.v, y.t>> \/ x.v < y.v
                              \/ (x.v = y.v /\ x.t = "num")
                 IN  Keys(S \ {i}, Append(acc, s.cache[i]))
        RECURSIVE Gets(_, _)
        Gets(g, acc) ==
            IF g > Len(s.subs) THEN acc ELSE Gets(g + 1, Append(acc, s.subs[g].cell))
        RECURSIVE Lvls(_, _, _)
        Lvls(j, l, acc) ==
            IF l > Len(s.gos[j].levels) THEN acc
            ELSE Lvls(j, l + 1, acc \o <<s.gos[j].levels[l].E,
                                          s.gos[j].levels[l].src.cell>>)
        RECURSIVE Goss(_, _)
        Goss(j, acc) ==
            IF j > Len(s.gos) THEN acc ELSE Goss(j + 1, Lvls(j, 1, acc))
        RECURSIVE Alls(_, _)
        Alls(a, acc) ==
            IF a > Len(s.all) THEN acc ELSE Alls(a + 1, acc \o s.all[a].inner)
        RECURSIVE Srcs(_, _)
        Srcs(i, acc) ==
            IF i > Len(s.srcs) THEN acc ELSE Srcs(i + 1, Append(acc, s.srcs[i].cell))
    IN  Srcs(1, Alls(1, Goss(1, Gets(1, Keys(DOMAIN s.cache, <<>>)))))

RECURSIVE Dedup(_, _, _)
Dedup(refs, i, acc) ==
    IF i > Len(refs) THEN acc
    ELSE Dedup(refs, i + 1,
               IF refs[i] = NoCell \/ \E k \in 1..Len(acc) : acc[k] = refs[i]
               THEN acc ELSE Append(acc, refs[i]))

RenumberBy(s, order) ==
    LET new(c) == IF c = NoCell THEN NoCell
                  ELSE CHOOSE k \in 1..Len(order) : order[k] = c
    IN  [s EXCEPT
          !.cache = [i \in DOMAIN s.cache |-> new(s.cache[i])],
          !.cells = [c \in CellIds |->
                        IF c <= Len(order) THEN s.cells[order[c]] ELSE FreshCell],
          !.subs = [g \in DOMAIN s.subs |-> [s.subs[g] EXCEPT !.cell = new(@)]],
          !.gos = [j \in DOMAIN s.gos |-> [s.gos[j] EXCEPT !.levels =
                      [l \in DOMAIN s.gos[j].levels |->
                          [s.gos[j].levels[l] EXCEPT !.E = new(@),
                                                     !.src.cell = new(@)]]]],
          !.all = [a \in DOMAIN s.all |-> [s.all[a] EXCEPT !.inner =
                      [i \in DOMAIN s.all[a].inner |-> new(s.all[a].inner[i])]]],
          !.srcs = [i \in DOMAIN s.srcs |-> [s.srcs[i] EXCEPT !.cell = new(@)]]]

Renumber(s) == RenumberBy(s, Dedup(RefList(s), 1, <<>>))

\* getEntitySubjectRef: the cell of the normalized key, created when missing.
getEntitySubjectRef(s, id) ==
    LET key == getCacheKey(id) IN
    IF s.cache[key] # NoCell THEN [s |-> s, ref |-> s.cache[key]]
    ELSE LET c == FreeCell(s) IN
         IF c = NoCell THEN [s |-> [s EXCEPT !.ovf = TRUE], ref |-> NoCell]
         ELSE [s |-> [s EXCEPT !.cache[key] = c, !.cells[c] = FreshCell], ref |-> c]

\* setPendingDeletion: clearTimeout of the id's timer, then a new timer.
setPendingDeletionNoTimer(s, id, cacheTime) == s
setPendingDeletion(s, id, cacheTime) == [s EXCEPT !.pend[id] = cacheTime]

\* cancelPendingDeletion: clearTimeout of the id's timer, and forget it.
cancelPendingDeletion(s, id) == [s EXCEPT !.pend[id] = NoTimer]

\* (updateStream.next() whose signal reaches no debounce)
updateStreamNextLost(s) == [s EXCEPT !.sig = @ + 1]
\* updateStream.next(): a closed Subject throws, a stopped one drops the signal;
\* an open one hands it to the debounceTime of every getAll subscription, which
\* restarts its timer.
updateStreamNext(s) ==
    IF s.bus = "closed" THEN [s EXCEPT !.sig = @ + 1, !.threw = TRUE]
    ELSE IF s.bus = "stopped" THEN [s EXCEPT !.sig = @ + 1]
    ELSE [s EXCEPT !.sig = @ + 1,
                   !.all = [a \in DOMAIN s.all |->
                               IF s.all[a].st = "subscribed"
                               THEN [s.all[a] EXCEPT !.deb = HUMAN_REACTION_TIME]
                               ELSE s.all[a]]]

\* getAll's map: the keys of the map whose cell holds a value, as an array (in
\* key order here; the order of the array is not followed).
presentKeys(s) ==
    {k \in DOMAIN s.cache : s.cache[k] # NoCell /\ s.cells[s.cache[k]].value # Undefined}

RECURSIVE KeyArray(_, _)
KeyArray(S, acc) ==
    IF S = {} THEN acc
    ELSE LET k == CHOOSE x \in S : \A y \in S : x.v <= y.v
         IN  KeyArray(S \ {k}, Append(acc, k))

\* The snapshot a combineLatest emits: its sources' latest values.
Snapshot(vals) == {vals[i] : i \in DOMAIN vals}

\* getAll's switchMap receives keys: the previous inner subscription is dropped
\* and combineLatest(keys.map(get)), or of([]), is subscribed to; every cell
\* replays its value, so the new inner stream emits one snapshot at once.
switchMapKeys(s, a, keys) ==
    LET inner == [i \in 1..Len(keys) |-> s.cache[keys[i]]]
        vals == [i \in 1..Len(keys) |-> s.cells[s.cache[keys[i]]].value]
    IN  [s EXCEPT
          !.cells = [c \in CellIds |-> [s.cells[c] EXCEPT !.observers =
              SelectSeq(@, LAMBDA o : ~(o.k = "all" /\ o.n = a))
              \o (IF \E i \in 1..Len(keys) : inner[i] = c
                  THEN <<AllRef(a, CHOOSE i \in 1..Len(keys) : inner[i] = c)>>
                  ELSE <<>>)]],
          !.all[a].inner = inner,
          !.all[a].vals = vals,
          !.all[a].snap = Snapshot(vals),
          !.all[a].n = @ + 1]

\* One recomputation of getAll subscription a: map, then switchMap.
recompute(s, a) == switchMapKeys(s, a, KeyArray(presentKeys(s), <<>>))

\* startWith(undefined): the first recomputation runs when getAll is subscribed to
startWithNothing(s, a) == s
startWith(s, a) == recompute(s, a)

\* The outer stream of getAll subscription a has completed: the subscription
\* completes when its inner stream has completed (of([]) has at once).
outerComplete(s, a) ==
    [s EXCEPT !.all[a].deb = NoTimer,
              !.all[a].st = IF \A i \in DOMAIN s.all[a].inner : s.all[a].inner[i] = NoCell
                            THEN "done" ELSE "tail"]

\* debounceTime's timer fires, or its source completes: the pending signal, if
\* there is one, goes downstream.
debouncedNext(s, a) ==
    IF s.all[a].deb = NoTimer THEN s
    ELSE recompute([s EXCEPT !.all[a].deb = NoTimer], a)

\* updateStream.complete(): the Subject stops; every debounceTime flushes and
\* completes.
RECURSIVE completeObservers(_, _)
completeObservers(s, a) ==
    IF a > Len(s.all) THEN s
    ELSE completeObservers(
            IF s.all[a].st = "subscribed" THEN outerComplete(debouncedNext(s, a), a)
            ELSE s,
            a + 1)

updateStreamUnsubscribe(s) == [s EXCEPT !.bus = "closed"]
updateStreamComplete(s) ==
    IF s.bus = "closed" THEN [s EXCEPT !.threw = TRUE]
    ELSE IF s.bus = "stopped" THEN s
    ELSE completeObservers([s EXCEPT !.bus = "stopped"], 1)

\* Subscription.unsubscribe of the levels of getOrSet observable j below level n
\* (a switchMap dropping its inner subscription, first() completing).
Truncate(s, j, n) ==
    [s EXCEPT
        !.cells = [c \in CellIds |-> [s.cells[c] EXCEPT !.observers =
            SelectSeq(@, LAMBDA o : ~(o.k = "gos" /\ o.n = j /\ o.lv > n))]],
        !.gos[j].levels = SubSeq(@, 1, IF n < Len(@) THEN n ELSE Len(@)),
        !.gos[j].stream.sub = IF @ > n THEN 0 ELSE @]

\* An error reaches the subscriber of getOrSet observable j (or the stream dies
\* on an exception thrown while subscribing to a closed cell).
GosFail(s, j) == [Truncate(s, j, 0) EXCEPT !.gos[j].st = "error"]

\* Level lv of observable j is still the live subscription in phase ph.
Alive(s, j, lv, ph) ==
    /\ s.gos[j].st = "subscribed"
    /\ lv <= Len(s.gos[j].levels)
    /\ s.gos[j].levels[lv].ph = ph

\* distinctUntilChanged() passes x on unless it is the value it passed last.
distinctUntilChanged(last, x) == last # x

\* What level lv's pipeline emits downstream. Level 1 ends in
\* distinctUntilChanged() and the subscriber; a deeper level is the retry
\* this.getOrSet(...).pipe(first()): its first value ends it and goes to the
\* switchMap of the level above.
\* first() completes at its first value and unsubscribes from its source: the
\* stream that set returned for the producer's stream.
unsubscribeSourceNever(s, j, lv) == s
unsubscribeSource(s, j, lv) ==
    IF s.gos[j].stream.sub = lv THEN [s EXCEPT !.gos[j].stream.sub = 0] ELSE s

RECURSIVE EmitUp(_, _, _, _)
EmitUp(s, j, lv, x) ==
    IF lv = 1
    THEN IF distinctUntilChanged(s.gos[j].last, x)
         THEN [s EXCEPT !.gos[j].last = x, !.gos[j].n = @ + 1]
         ELSE s
    ELSE LET up == Truncate(EmitUp(s, j, lv - 1, x), j, lv - 1) IN
         \* the retry has completed: a switchMap whose own source had completed
         \* before (phase "tail") completes with it
         IF lv = 2 /\ up.gos[j].levels # <<>> /\ up.gos[j].levels[1].ph = "tail"
         THEN [Truncate(up, j, 0) EXCEPT !.gos[j].st = "done"]
         ELSE up

\* setSync's test: the value is not the one the cell holds (by reference).
isNewAlways(prevValue, value) == TRUE
isNew(prevValue, value) == prevValue = Undefined \/ prevValue # value

RECURSIVE CellNext(_, _, _, _), NotifyAll(_, _, _, _, _, _), Notify(_, _, _, _, _),
          WatchNext(_, _, _, _, _), Retry(_, _, _, _), GetOrSetCall(_, _, _, _, _),
          setSync(_, _, _, _), SubscribeSrc(_, _, _, _), SwitchToGet(_, _, _, _),
          SubscribeGet(_, _, _, _), SrcFirst(_, _, _, _), deleteSync(_, _, _),
          Delivered(_, _, _, _)

\* (the second switchMap without the retry: an absent value is let through)
WatchNextNoRetry(s, j, lv, entity, fuel) ==
    IF entity # Undefined
    THEN Delivered(s, EmitUp(Truncate(s, j, lv), j, lv, entity), j, fuel)
    ELSE s

\* BehaviorSubject.next(x): store x, then hand it to a copy of the observers list,
\* in order; each observer's reaction runs to its end before the next one's.
CellNext(s, c, x, fuel) ==
    LET s1 == [s EXCEPT !.cells[c].value = x] IN
    IF s.cells[c].closed THEN s1
    ELSE NotifyAll(s1, s.cells[c].observers, 1, c, x, fuel)

NotifyAll(s, copy, i, c, x, fuel) ==
    IF i > Len(copy) THEN s
    ELSE NotifyAll(Notify(s, copy[i], c, x, fuel), copy, i + 1, c, x, fuel)

\* One observer of cell c receives x, if it is still subscribed to c.
Notify(s, o, c, x, fuel) ==
    IF o.k = "get"
    THEN \* get(id): the cell piped through notUndefined, to the subscriber
         IF s.subs[o.n].st = "subscribed" /\ s.subs[o.n].cell = c /\ isDefined(x)
         THEN [s EXCEPT !.subs[o.n].last = x, !.subs[o.n].n = @ + 1]
         ELSE s
    ELSE IF o.k = "src"
    THEN \* the inner stream of setAsync's switchMap, get(id), to the subscriber
         IF s.srcs[o.n].st = "subscribed" /\ s.srcs[o.n].cell = c /\ isDefined(x)
         THEN [s EXCEPT !.srcs[o.n].n = @ + 1]
         ELSE s
    ELSE IF o.k = "all"
    THEN \* a source of combineLatest, get(key): a snapshot with the new value
         IF /\ s.all[o.n].st \in {"subscribed", "tail"}
            /\ o.lv <= Len(s.all[o.n].inner)
            /\ s.all[o.n].inner[o.lv] = c
            /\ isDefined(x)
         THEN [s EXCEPT !.all[o.n].vals[o.lv] = x,
                        !.all[o.n].snap = Snapshot([s.all[o.n].vals EXCEPT ![o.lv] = x]),
                        !.all[o.n].n = @ + 1]
         ELSE s
    ELSE LET j == o.n
             lv == o.lv
         IN
         IF Alive(s, j, lv, "watch") /\ s.gos[j].levels[lv].E = c
         THEN WatchNext(s, j, lv, x, fuel)
         ELSE IF /\ Alive(s, j, lv, "src")
                 /\ s.gos[j].levels[lv].src = GetSrc(c)
                 /\ isDefined(x)
         THEN \* get(id).pipe(first()): the first defined value ends the source
              SrcFirst([s EXCEPT !.cells[c].observers =
                            SelectSeq(@, LAMBDA q : q # o)], j, lv, fuel)
         ELSE s

\* The second switchMap of level lv receives entity from entitySubject: it calls
\* its project, drops the previous inner subscription and subscribes to the
\* result: of(entity), or the retry this.getOrSet(id, getInput, cacheTime).
WatchNext(s, j, lv, entity, fuel) ==
    IF entity # Undefined
    THEN Delivered(s, EmitUp(Truncate(s, j, lv), j, lv, entity), j, fuel)
    ELSE Retry(GetOrSetCall(s, s.gos[j].id, s.gos[j].prod, s.gos[j].ct, fuel - 1),
               j, lv, fuel)

\* The retry this.getOrSet(...) has returned r: the switchMap drops its previous
\* inner subscription and subscribes to r.pipe(first()).
\* The subscriber's callback has run in e if the stream delivered a value since
\* s; a subscriber that invalidates the entity calls store.delete(id) in it.
Delivered(s, e, j, fuel) ==
    IF e.gos[j].deletes /\ e.gos[j].n > s.gos[j].n
    THEN deleteSync(e, e.gos[j].id, fuel - 1)
    ELSE e

Retry(r, j, lv, fuel) ==
    IF r.s.ovf \/ ~Alive(r.s, j, lv, "watch") THEN r.s
    ELSE SubscribeSrc(
           [Truncate(r.s, j, lv) EXCEPT
               !.gos[j].levels = Append(@, r.level),
               !.gos[j].stream = IF r.level.src.kind = "stream"
                                 THEN StreamOf(r.level) ELSE @],
           j, lv + 1, fuel - 1)

\* entitySubject.getValue() !== undefined
hasValueNever(entitySubject) == FALSE
hasValue(entitySubject) == entitySubject.value # Undefined

\* The source of the pipe is the stream w that set returned for a bare value.
SyncLevel(w, entitySubject) ==
    [s |-> w.s, level |-> Level("src", entitySubject, GetSrc(w.ref))]

\* getOrSet(id, getInput, cacheTime), up to the pipe: what the call itself does.
\* The source is chosen, and a bare value is stored, when getOrSet is called.
GetOrSetCall(s, id, prod, cacheTime, fuel) ==
    IF fuel <= 0 THEN [s |-> [s EXCEPT !.ovf = TRUE], level |-> Level("src", NoCell, NoSrc)]
    ELSE
    LET r == getEntitySubjectRef(s, id)
        entitySubject == r.ref
    IN
    IF r.s.ovf THEN [s |-> r.s, level |-> Level("src", NoCell, NoSrc)]
    ELSE IF hasValue(r.s.cells[entitySubject])
    THEN [s |-> r.s, level |-> Level("src", entitySubject, GetSrc(entitySubject))]
    ELSE LET input == ProducerResult(prod, r.s.inv)
             s1 == [r.s EXCEPT !.inv = @ + 1]
         IN
         IF prod.kind = "sync"
         THEN SyncLevel(setSync(s1, input, cacheTime, fuel), entitySubject)
         ELSE [s |-> s1, level |-> Level("src", entitySubject, AsyncSrc(prod.kind, input))]

\* setSync(value, cacheTime); ref is the cell of the stream it returns.
setSync(s, value, cacheTime, fuel) ==
    LET id == idAccessor(value)
        r == getEntitySubjectRef(s, id)
        entitySubjectRef == r.ref
    IN
    IF r.s.ovf THEN [s |-> r.s, ref |-> NoCell]
    ELSE
    LET prevValue == r.s.cells[entitySubjectRef].value
        s0 == [r.s EXCEPT !.written = @ \cup {getCacheKey(id)}, !.wrote = TRUE]
    IN  \* return this.get(id)
        getEntitySubjectRef(
            IF isNew(prevValue, value)
            THEN updateStreamNext(
                   CellNext(setPendingDeletion(s0, id, cacheTime),
                            entitySubjectRef, value, fuel))
            ELSE r.s,
            id)

\* Level lv of observable j subscribes to its source.
SubscribeSrc(s, j, lv, fuel) ==
    LET src == s.gos[j].levels[lv].src IN
    IF src.kind = "get" THEN SubscribeGet(s, j, lv, fuel)
    ELSE IF src.kind = "of"
    THEN \* setAsync: of(value) emits at once, switchMap calls setSync and
         \* subscribes to the stream it returns
         SwitchToGet(setSync(s, src.val, s.gos[j].ct, fuel), j, lv, fuel)
    ELSE IF src.kind = "stream"
    THEN [s EXCEPT !.gos[j].stream.sub = lv]    \* nothing until the stream emits
    ELSE s      \* from(promise): nothing until the promise resolves

\* setAsync's switchMap subscribes to the stream w that setSync returned.
SwitchToGet(w, j, lv, fuel) ==
    IF w.s.ovf \/ ~Alive(w.s, j, lv, "src") THEN w.s
    ELSE SubscribeGet([w.s EXCEPT !.gos[j].levels[lv].src = GetSrc(w.ref)], j, lv, fuel)

\* Subscribing to this.get(id): the BehaviorSubject replays its value.
SubscribeGet(s, j, lv, fuel) ==
    LET c == s.gos[j].levels[lv].src.cell IN
    IF s.cells[c].closed THEN GosFail(s, j)
    ELSE IF isDefined(s.cells[c].value) THEN SrcFirst(s, j, lv, fuel)
    ELSE [s EXCEPT !.cells[c].observers = Append(@, GosRef(j, lv))]

\* first() has passed a value: switchMap(() => entitySubject) subscribes to the
\* cell captured when getOrSet was called, which replays its current value.
SrcFirst(s, j, lv, fuel) ==
    LET E == s.gos[j].levels[lv].E IN
    IF s.cells[E].closed THEN GosFail(s, j)
    ELSE WatchNext([unsubscribeSource(s, j, lv) EXCEPT
                        !.gos[j].levels[lv].ph = "watch",
                        !.cells[E].observers = Append(@, GosRef(j, lv))],
                   j, lv, s.cells[E].value, fuel)

\* deleteSync(value): value is an id or an entity.
deleteSync(s, value, fuel) ==
    LET id == IF isYbKey(value) THEN value ELSE idAccessor(value)
        r == getEntitySubjectRef(s, id)
    IN
    IF r.s.ovf THEN r.s
    ELSE LET s1 == CellNext(r.s, r.ref, Undefined, fuel)
             s2 == [s1 EXCEPT !.cache[id] = NoCell]
         IN  updateStreamNext(cancelPendingDeletion(s2, id))

\* clear(): subject.complete() reaches one observer of cell c.
NotifyComplete(s, o, c) ==
    IF o.k = "get"
    THEN IF s.subs[o.n].st = "subscribed" /\ s.subs[o.n].cell = c
         THEN [s EXCEPT !.subs[o.n].st = "done"]
         ELSE s
    ELSE IF o.k = "src"
    THEN \* the inner stream of setAsync's switchMap has completed
         IF s.srcs[o.n].cell = c THEN [s EXCEPT !.srcs[o.n].cell = NoCell] ELSE s
    ELSE IF o.k = "all"
    THEN \* a source of combineLatest has completed; with the last one of them
         \* the inner stream completes
         IF o.lv <= Len(s.all[o.n].inner) /\ s.all[o.n].inner[o.lv] = c
         THEN LET inner == [s.all[o.n].inner EXCEPT ![o.lv] = NoCell] IN
              [s EXCEPT !.all[o.n].inner = inner,
                        !.all[o.n].st =
                            IF @ = "tail" /\ \A i \in DOMAIN inner : inner[i] = NoCell
                            THEN "done" ELSE @]
         ELSE s
    ELSE LET j == o.n
             lv == o.lv
         IN
         IF Alive(s, j, lv, "watch") /\ s.gos[j].levels[lv].E = c
         THEN \* both switchMaps have lost their sources: the stream completes,
              \* unless a retry is still running (then it completes with it);
              \* a retry that completes without a value fails in its first()
              IF lv < Len(s.gos[j].levels)
              THEN [s EXCEPT !.gos[j].levels[lv].ph = "tail"]
              ELSE IF lv = 1
              THEN [Truncate(s, j, 0) EXCEPT !.gos[j].st = "done"]
              ELSE GosFail(s, j)
         ELSE IF Alive(s, j, lv, "src") /\ s.gos[j].levels[lv].src = GetSrc(c)
         THEN GosFail(s, j)       \* first(): EmptyError
         ELSE s

RECURSIVE CompleteAll(_, _, _, _)
CompleteAll(s, copy, i, c) ==
    IF i > Len(copy) THEN s
    ELSE CompleteAll(NotifyComplete(s, copy[i], c), copy, i + 1, c)

\* clear(): every cell of the map is completed and closed (complete() of a
\* closed subject throws), the map and the timers are emptied.
RECURSIVE clearCells(_, _)
clearCells(s, keys) ==
    IF keys = {} THEN s
    ELSE LET k == CHOOSE x \in keys : TRUE
             c == s.cache[k]
             s1 == CompleteAll(s, s.cells[c].observers, 1, c)
         IN  IF s.cells[c].closed THEN [s EXCEPT !.threw = TRUE]
             ELSE clearCells([s1 EXCEPT !.cells[c].closed = TRUE,
                                        !.cells[c].observers = <<>>],
                             keys \ {k})

\* the rest of clear(), when the loop over the cells has not thrown
clearMapsKeepTimers(s) ==
    updateStreamNext([s EXCEPT !.cache = [i \in DOMAIN s.cache |-> NoCell]])
clearMaps(s) ==
    IF s.threw THEN s
    ELSE updateStreamNext([s EXCEPT !.cache = [i \in DOMAIN s.cache |-> NoCell],
                                    !.pend = [i \in DOMAIN s.pend |-> NoTimer]])

clear(s) == clearMaps(clearCells(s, {k \in DOMAIN s.cache : s.cache[k] # NoCell}))

\* dispose(): clear(), then updateStream.complete()
disposeBus(s) == IF s.threw THEN s ELSE updateStreamComplete(s)
disposeWithoutClear(s) == disposeBus(s)
dispose(s) == disposeBus(clear(s))

\* ------------------------------------------------------------------ inputs
Entities == {Ent(Str(1), 1), Ent(Str(1), 2), Ent(Num(1), 3)}
CacheTimes == {1, 2}
Arrays == {<<Ent(Str(1), 1), Ent(Str(1), 1)>>, <<Ent(Str(1), 1), Ent(Str(1), 2)>>,
           <<Ent(Num(1), 3), Ent(Str(1), 2)>>}
GetIds == {Str(1)}
Deletable == {Str(1), Num(1), Ent(Str(1), 1)}
Prod(kind, id, base, fresh) == [kind |-> kind, id |-> id, base |-> base, fresh |-> fresh]

\* History: the operation, who ran it, the id and the values handed to it, and
\* whether it changed a value (filled in when it has run).
Op(op, who, id, vals) ==
    [op |-> op, who |-> who, id |-> id, vals |-> vals, new |-> FALSE,
     arr |-> <<>>, ct |-> 0]
\* ... and for a write of an array: the array and the cache time
OpMany(op, who, arr, cacheTime) ==
    [op |-> op, who |-> who, id |-> idAccessor(arr[Len(arr)]),
     vals |-> {arr[i] : i \in 1..Len(arr)}, new |-> FALSE, arr |-> arr, ct |-> cacheTime]
NoId == Str(0)
NoTtl == [k |-> NoId, left |-> 0, new |-> FALSE]

\* The key's cell in the map holds a value.
Present(k) == cache[k] # NoCell /\ isDefined(cells[cache[k]].value)
ValueOf(k) == IF cache[k] = NoCell THEN Undefined ELSE cells[cache[k]].value

\* The burst of set calls after operation op has led to c: a set of a key that
\* was absent, under a getAll subscription, begins or extends it, time passing
\* leaves it as it is, the debounce timer ends it, anything else breaks it off.
NoBurst == [st |-> "none", ents |-> {}, n |-> <<>>]
Emitted(c) == [a \in DOMAIN c.all |-> c.all[a].n]
BurstAfter(c, op) ==
    IF /\ op.op = "set"
       /\ ~Present(getCacheKey(op.id))
       /\ all # <<>> /\ \A a \in DOMAIN all : all[a].st = "subscribed"
       /\ burst.st \in {"none", "open"}
       /\ \A e \in burst.ents : getCacheKey(idAccessor(e)) # getCacheKey(op.id)
    THEN [st |-> "open", ents |-> burst.ents \cup op.vals,
          n |-> IF burst.st = "open"
                THEN [a \in DOMAIN c.all |-> burst.n[a] + c.all[a].n]
                ELSE Emitted(c)]
    ELSE IF burst.st = "open" /\ op.op = "tick" THEN burst
    ELSE IF burst.st = "open" /\ op.op = "debounce"
    THEN [burst EXCEPT !.st = "closed",
                       !.n = [a \in DOMAIN c.all |-> burst.n[a] + c.all[a].n]]
    ELSE NoBurst

\* The deleted entities after operation op: a snapshot delivered by the
\* operation before ends the watch, a delete adds the entity it removed, a write
\* of an entity takes it out.
GoneAfter(op) ==
    LET before == IF \E a \in DOMAIN all : all[a].n > 0 THEN {} ELSE gone IN
    IF op.op \in {"delete", "deleteAsync"}
    THEN (before \cup {ValueOf(getCacheKey(op.id))}) \ {Undefined}
    ELSE before \ op.vals

\* The state after an operation; the run's bounds cut it off. t is what is left
\* of the last set's cache time, unless the operation wrote a value itself.
Become(c, op, t) ==
    /\ c.inv <= MaxInvoke
    /\ cache' = c.cache
    /\ cells' = c.cells
    /\ pend' = c.pend
    /\ subs' = c.subs
    /\ gos' = c.gos
    /\ inv' = c.inv
    /\ ovf' = c.ovf
    /\ written' = c.written
    /\ ttl' = IF subs = <<>> THEN NoTtl      \* followed for the get observables
              ELSE IF op.op = "set" THEN [t EXCEPT !.new = c.wrote]
              ELSE IF c.wrote THEN NoTtl ELSE t
    /\ lastOp' = [op EXCEPT !.new = c.wrote]
    /\ all' = c.all
    /\ bus' = c.bus
    /\ sig' = c.sig
    /\ threw' = c.threw
    /\ burst' = BurstAfter(c, op)
    /\ gone' = IF all = <<>> THEN {} ELSE GoneAfter(op)
    /\ srcs' = c.srcs
    /\ config' = config
    /\ stores' = stores
    /\ built' = built

Commit(s, op, t) == Become(Renumber(Collect(s)), op, t)

\* A new store, and a run that keeps nGet get observables, nGos getOrSet
\* observables, nAll getAll subscriptions and nSrc promises or streams.
construct(cfg, nGet, nGos, nAll, nSrc) ==
    /\ config = mergeConfig(cfg)
    /\ stores = [i \in FactoryIds |-> NoStore]
    /\ built = 0
    /\ srcs = [i \in 1..nSrc |-> IdleSrc]
    /\ all = [a \in 1..nAll |-> IdleAll]
    /\ bus = "open"
    /\ sig = 0
    /\ threw = FALSE
    /\ burst = NoBurst
    /\ gone = {}
    /\ cache = [i \in Ids |-> NoCell]
    /\ cells = [c \in CellIds |-> FreshCell]
    /\ pend = [i \in Ids |-> NoTimer]
    /\ subs = [g \in 1..nGet |-> IdleGet]
    /\ gos = [j \in 1..nGos |-> IdleGos]
    /\ inv = 0
    /\ ovf = FALSE
    /\ written = {}
    /\ ttl = NoTtl
    /\ lastOp = Op("init", 0, NoId, {})

\* new EntityStore()
InitOf(nGet, nGos, nAll, nSrc) == construct(<<>>, nGet, nGos, nAll, nSrc)
InitWith(nGet, nGos) == InitOf(nGet, nGos, 0, 0)

\* ----------------------------------------------------------------- actions
\* stream = store.get(id)
GetCall(g, id) ==
    /\ ~ovf /\ subs[g].st = "idle"
    /\ LET r == getEntitySubjectRef(Store, id) IN
       Commit([r.s EXCEPT !.subs[g] = [st |-> "called", id |-> id, cell |-> r.ref,
                                       last |-> Undefined, n |-> 0]],
              Op("get", g, id, {}), ttl)

\* stream.subscribe(...): the cell replays its value through notUndefined
subscribeGet(s, g) ==
    LET c == s.subs[g].cell IN
    IF s.cells[c].closed THEN [s EXCEPT !.subs[g].st = "error"]
    ELSE [s EXCEPT !.subs[g].st = "subscribed",
                   !.cells[c].observers = Append(@, GetRef(g)),
                   !.subs[g].last = IF isDefined(s.cells[c].value)
                                    THEN s.cells[c].value ELSE @,
                   !.subs[g].n = IF isDefined(s.cells[c].value) THEN @ + 1 ELSE @]

GetSubscribe(g) ==
    /\ ~ovf /\ subs[g].st = "called"
    /\ Commit(subscribeGet(Store, g), Op("subscribe", g, subs[g].id, {}), ttl)

\* subscription.unsubscribe(), and the observable is dropped
GetUnsubscribe(g) ==
    /\ ~ovf /\ subs[g].st # "idle"
    /\ Commit([Store EXCEPT
                  !.cells = [c \in CellIds |-> [cells[c] EXCEPT !.observers =
                                SelectSeq(@, LAMBDA o : o # GetRef(g))]],
                  !.subs[g] = IdleGet],
              Op("unsubscribe", g, subs[g].id, {}), ttl)

\* store.set(entity, cacheTime)
Set(entity, cacheTime) ==
    /\ ~ovf
    /\ Commit(setSync(Store, entity, cacheTime, MaxDepth).s,
              Op("set", 0, idAccessor(entity), {entity}),
              [k |-> getCacheKey(idAccessor(entity)), left |-> cacheTime, new |-> FALSE])

\* store.set(of(entity), cacheTime).subscribe(): setAsync hands the value the
\* stream emits to setSync
SetAsync(entity, cacheTime) ==
    /\ ~ovf
    /\ Commit(setSync(Store, entity, cacheTime, MaxDepth).s,
              Op("setAsync", 0, idAccessor(entity), {entity}), NoTtl)

\* setManySync: values.forEach(setSync)
RECURSIVE setManySync(_, _, _, _, _)
setManySync(s, values, i, cacheTime, fuel) ==
    IF i > Len(values) \/ s.ovf THEN s
    ELSE setManySync(setSync(s, values[i], cacheTime, fuel).s, values, i + 1,
                     cacheTime, fuel)

\* store.setMany(array, cacheTime)
SetMany(values, cacheTime) ==
    /\ ~ovf
    /\ Commit(setManySync(Store, values, 1, cacheTime, MaxDepth),
              OpMany("setMany", 0, values, cacheTime), NoTtl)

\* store.delete(idOrEntity)
Delete(value) ==
    /\ ~ovf
    /\ Commit(deleteSync(Store, value, MaxDepth),
              Op("delete", 0, IF isYbKey(value) THEN value ELSE idAccessor(value), {}),
              NoTtl)

\* store.clear()
Clear ==
    /\ ~ovf
    /\ Commit(clear(Store), Op("clear", 0, NoId, {}), NoTtl)

\* store.delete(of(idOrEntity)).subscribe(): deleteAsync hands the value the
\* stream emits to deleteSync
DeleteAsync(value) ==
    /\ ~ovf
    /\ Commit(deleteSync(Store, value, MaxDepth),
              Op("deleteAsync", 0, IF isYbKey(value) THEN value ELSE idAccessor(value), {}),
              NoTtl)

\* Subscription.unsubscribe of the inner stream of source i's switchMap
unsubscribeInner(s, i) ==
    [s EXCEPT !.cells = [c \in CellIds |-> [s.cells[c] EXCEPT !.observers =
                            SelectSeq(@, LAMBDA o : o # SrcRef(i))]],
              !.srcs[i].cell = NoCell]

\* setAsync's switchMap has called setSync, which returned the stream w: the
\* previous inner stream is dropped and w subscribed to; its cell replays.
switchToSet(w, i) ==
    IF w.s.ovf THEN w.s
    ELSE LET s1 == unsubscribeInner(w.s, i)
             c == w.ref
         IN  IF s1.cells[c].closed THEN [s1 EXCEPT !.srcs[i].st = "error"]
             ELSE [s1 EXCEPT !.srcs[i].cell = c,
                             !.cells[c].observers = Append(@, SrcRef(i)),
                             !.srcs[i].n = IF isDefined(s1.cells[c].value)
                                           THEN @ + 1 ELSE @]

\* The entities of what a source produces for operation op.
EntitiesOf(op, v) ==
    IF op = "set" THEN {v}
    ELSE IF op = "setMany" THEN {v[k] : k \in 1..Len(v)}
    ELSE {}

\* The subscribed stream of source i receives v from its source: setAsync's
\* switchMap, setManyAsync's tap or deleteAsync's map runs on it.
applyValue(s, i, v, fuel) ==
    LET s0 == [s EXCEPT !.srcs[i].applied = @ \cup EntitiesOf(s.srcs[i].op, v)] IN
    IF s.srcs[i].op = "set"
    THEN switchToSet(setSync(s0, v, s.srcs[i].ct, fuel), i)
    ELSE IF s.srcs[i].op = "setMany"
    THEN [setManySync(s0, v, 1, s.srcs[i].ct, fuel) EXCEPT !.srcs[i].n = @ + 1]
    ELSE [deleteSync(s0, v, fuel) EXCEPT !.srcs[i].n = @ + 1]

\* A promise has one value: from(promise) completes after it, and with it the
\* returned stream, unless the inner stream of set's switchMap goes on.
afterValue(s, i) ==
    IF s.srcs[i].kind = "promise" /\ s.srcs[i].op # "set" /\ s.srcs[i].st = "subscribed"
    THEN [s EXCEPT !.srcs[i].st = "done"]
    ELSE s

\* The source of i produces v. Without a subscriber of the returned stream
\* nothing is subscribed to the source: a promise keeps its value, the value
\* of a stream is gone.
sourceNext(s, i, v, fuel) ==
    IF s.srcs[i].st = "subscribed" THEN afterValue(applyValue(s, i, v, fuel), i)
    ELSE [s EXCEPT !.srcs[i].held = IF s.srcs[i].kind = "promise" THEN <<v>> ELSE <<>>]

\* The source of i fails: the error goes through switchMap, tap or map to the
\* subscriber of the returned stream, and the subscription ends.
sourceErrorRollback(s, i) ==
    [unsubscribeInner(s, i) EXCEPT
        !.srcs[i].failed = TRUE,
        !.srcs[i].st = "error",
        !.cells = [c \in CellIds |->
            IF s.cells[c].value \in s.srcs[i].applied
            THEN [s.cells[c] EXCEPT !.value = Undefined] ELSE s.cells[c]]]
sourceError(s, i) ==
    IF s.srcs[i].st = "subscribed"
    THEN [unsubscribeInner(s, i) EXCEPT !.srcs[i].failed = TRUE, !.srcs[i].st = "error"]
    ELSE [s EXCEPT !.srcs[i].failed = TRUE]

\* stream = store.set(source, ct), store.setMany(source, ct) or
\* store.delete(source): a pipe on the source, nothing is subscribed yet
AsyncCall(i, op, kind, queue, fails, cacheTime) ==
    /\ ~ovf /\ srcs[i].st = "idle"
    /\ Commit([Store EXCEPT !.srcs[i] = [IdleSrc EXCEPT
                    !.st = "called", !.op = op, !.kind = kind, !.queue = queue,
                    !.fails = fails, !.ct = cacheTime]],
              Op("call", i, NoId, {}), ttl)

\* stream.subscribe(...): the source is subscribed to; a settled promise hands
\* over its value or its rejection, a failed stream its error
subscribeSource(s, i, fuel) ==
    IF s.srcs[i].failed THEN [s EXCEPT !.srcs[i].st = "error"]
    ELSE IF s.srcs[i].held # <<>>
    THEN afterValue(applyValue([s EXCEPT !.srcs[i].held = <<>>], i,
                               s.srcs[i].held[1], fuel), i)
    ELSE s

AsyncSubscribe(i) ==
    /\ ~ovf /\ srcs[i].st = "called"
    /\ Commit(subscribeSource([Store EXCEPT !.srcs[i].st = "subscribed"], i, MaxDepth),
              IF srcs[i].held = <<>> \/ srcs[i].failed \/ srcs[i].op = "delete"
              THEN Op("subscribeSrc", i, NoId, {})
              ELSE OpMany("subscribeSrc", i,
                          IF srcs[i].op = "set" THEN srcs[i].held ELSE srcs[i].held[1],
                          srcs[i].ct),
              IF srcs[i].held = <<>> THEN ttl ELSE NoTtl)

\* The promise resolves, the stream emits
SourceProduce(i) ==
    /\ ~ovf /\ srcs[i].st \in {"called", "subscribed"}
    /\ srcs[i].queue # <<>> /\ ~srcs[i].failed
    /\ LET v == Head(srcs[i].queue) IN
       Commit(sourceNext([Store EXCEPT !.srcs[i].queue = Tail(@)], i, v, MaxDepth),
              IF srcs[i].op = "delete"
              THEN Op("produce", i, IF isYbKey(v) THEN v ELSE idAccessor(v), {})
              ELSE OpMany("produce", i, IF srcs[i].op = "set" THEN <<v>> ELSE v,
                          srcs[i].ct),
              NoTtl)

\* The promise is rejected, the stream fails
SourceFail(i) ==
    /\ ~ovf /\ srcs[i].st \in {"called", "subscribed"}
    /\ srcs[i].queue = <<>> /\ srcs[i].fails /\ ~srcs[i].failed
    /\ Commit(sourceError(Store, i), Op("fail", i, NoId, {}), ttl)

\* The stream is unsubscribed from (if need be), and it and its source are dropped
SourceDrop(i) ==
    /\ ~ovf /\ srcs[i].st # "idle"
    /\ Commit([unsubscribeInner(Store, i) EXCEPT !.srcs[i] = IdleSrc],
              Op("drop", i, NoId, {}), ttl)

\* store.set(entity) and store.setMany(array): no cacheTime argument
SetDefault(entity) ==
    /\ ~ovf
    /\ Commit(setSync(Store, entity, defaultCacheTime(config), MaxDepth).s,
              Op("setDefault", 0, idAccessor(entity), {entity}), NoTtl)

SetManyDefault(values) ==
    /\ ~ovf
    /\ Commit(setManySync(Store, values, 1, defaultCacheTime(config), MaxDepth),
              OpMany("setManyDefault", 0, values, defaultCacheTime(config)), NoTtl)

\* store.dispose()
Dispose ==
    /\ ~ovf
    /\ Commit(dispose(Store), Op("dispose", 0, NoId, {}), NoTtl)

\* store.getAll().subscribe(...): startWith emits, then the debounced
\* updateStream is subscribed to (a stopped Subject completes the subscriber)
subscribeAll(s, a) ==
    IF s.bus = "stopped" THEN outerComplete(s, a)
    ELSE IF s.bus = "closed" THEN [s EXCEPT !.all[a].st = "error"]
    ELSE s

AllSubscribe(a) ==
    /\ ~ovf /\ all[a].st = "idle"
    /\ Commit(subscribeAll(startWith([Store EXCEPT !.all[a].st = "subscribed"], a), a),
              Op("subscribeAll", a, NoId, {}), ttl)

\* subscription.unsubscribe() of a getAll subscription
AllUnsubscribe(a) ==
    /\ ~ovf /\ all[a].st # "idle"
    /\ Commit([Store EXCEPT
                  !.cells = [c \in CellIds |-> [cells[c] EXCEPT !.observers =
                                SelectSeq(@, LAMBDA o : ~(o.k = "all" /\ o.n = a))]],
                  !.all[a] = IdleAll],
              Op("unsubscribeAll", a, NoId, {}), ttl)

\* the timer of debounceTime fires
DebounceFire(a) ==
    /\ ~ovf /\ all[a].st = "subscribed" /\ all[a].deb = 0
    /\ Commit(debouncedNext(Store, a), Op("debounce", a, NoId, {}), ttl)

\* the timer of setPendingDeletion fires: () => this.deleteSync(id)
TimerFire(id) ==
    /\ ~ovf /\ pend[id] = 0
    /\ Commit(deleteSync(Store, id, MaxDepth), Op("expire", 0, id, {}), ttl)

\* One unit of time passes; a due timer fires first. (Time is followed only
\* while a timer or the cache time of the last set is running.)
Tick ==
    /\ ~ovf
    /\ \A i \in Ids : pend[i] # 0
    /\ \A a \in DOMAIN all : all[a].deb # 0
    /\ \/ ttl.left > 0
       \/ \E i \in Ids : pend[i] > 0
       \/ \E a \in DOMAIN all : all[a].deb > 0
    /\ Commit([Store EXCEPT !.pend = [i \in Ids |->
                                IF pend[i] > 0 THEN pend[i] - 1 ELSE pend[i]],
                            !.all = [a \in DOMAIN all |-> [all[a] EXCEPT
                                !.n = 0,
                                !.deb = IF @ > 0 THEN @ - 1 ELSE @]]],
              Op("tick", 0, NoId, {}),
              [ttl EXCEPT !.left = IF @ > 0 THEN @ - 1 ELSE 0])

\* stream = store.getOrSet(id, getInput, cacheTime)
Called(r, j, id, prod, cacheTime) ==
    [r.s EXCEPT !.gos[j] = [st |-> "called", id |-> id, prod |-> prod,
                            ct |-> cacheTime, levels |-> <<r.level>>,
                            last |-> Undefined, n |-> 0, deletes |-> FALSE,
                            stream |-> StreamOf(r.level)]]

GosCall(j, id, prod, cacheTime) ==
    /\ ~ovf /\ gos[j].st = "idle"
    /\ Commit(Called(GetOrSetCall(Store, id, prod, cacheTime, MaxDepth),
                     j, id, prod, cacheTime),
              Op("getOrSet", j, id, {}), ttl)

\* stream = store.getOrSet(id, getInput): no cacheTime argument
GosCallDefault(j, id, prod) ==
    /\ ~ovf /\ gos[j].st = "idle"
    /\ Commit(Called(GetOrSetCall(Store, id, prod, defaultCacheTime(config), MaxDepth),
                     j, id, prod, defaultCacheTime(config)),
              Op("getOrSetDefault", j, id, {}), ttl)

\* stream.subscribe(...)
GosSubscribe(j) ==
    /\ ~ovf /\ gos[j].st = "called"
    /\ Commit(SubscribeSrc([Store EXCEPT !.gos[j].st = "subscribed"], j, 1, MaxDepth),
              Op("subscribeGos", j, gos[j].id, {}), ttl)

\* subscription.unsubscribe(), and the observable is dropped
\* store.getOrSet(id, getInput, cacheTime).subscribe(cb), where cb invalidates
\* the entity, store.delete(id), at every value it receives
SubscribeDeleting(c, j) ==
    IF c.ovf THEN c
    ELSE SubscribeSrc([c EXCEPT !.gos[j].st = "subscribed", !.gos[j].deletes = TRUE],
                      j, 1, MaxDepth)

GosCallDeleting(j, id, prod, cacheTime) ==
    /\ ~ovf /\ gos[j].st = "idle"
    /\ Commit(SubscribeDeleting(Called(GetOrSetCall(Store, id, prod, cacheTime, MaxDepth),
                                       j, id, prod, cacheTime), j),
              Op("getOrSetSubscribe", j, id, {}), ttl)

GosUnsubscribe(j) ==
    /\ ~ovf /\ gos[j].st # "idle"
    /\ Commit([Truncate(Store, j, 0) EXCEPT !.gos[j] = IdleGos],
              Op("unsubscribeGos", j, gos[j].id, {}), ttl)

\* The promise a producer returned resolves: from(promise) emits its value to
\* the switchMap of setAsync.
sourceEmit(s, j, lv, fuel) ==
    SwitchToGet(setSync(s, s.gos[j].levels[lv].src.val, s.gos[j].ct, fuel), j, lv, fuel)

\* The k-th value of a producer's stream whose first value is val.
StreamValue(val, k) == Ent(val.id, val.name + 5 * (k - 1))

\* The producer's stream emits its next value: setAsync's switchMap, if it is
\* still subscribed, calls setSync and switches to the stream it returns.
streamNext(s, j, value, fuel) ==
    LET lv == s.gos[j].stream.sub
        s1 == [s EXCEPT !.gos[j].stream.out = @ + 1]
    IN  IF lv = 0 THEN s1
        ELSE SwitchToGet(setSync(s1, value, s1.gos[j].ct, fuel), j, lv, fuel)

StreamEmit(j) ==
    /\ ~ovf /\ gos[j].st = "subscribed"
    /\ gos[j].stream # NoStream /\ gos[j].stream.out < MaxEmit
    /\ LET value == StreamValue(gos[j].stream.val, gos[j].stream.out + 1) IN
       Commit(streamNext(Store, j, value, MaxDepth),
              Op("emit", j, gos[j].id, {value}), ttl)

PromiseResolve(j) ==
    /\ ~ovf /\ gos[j].st = "subscribed" /\ gos[j].levels # <<>>
    /\ LET lv == Len(gos[j].levels) IN
       /\ gos[j].levels[lv].ph = "src"
       /\ gos[j].levels[lv].src.kind = "promise"
       /\ Commit(sourceEmit(Store, j, lv, MaxDepth),
                 Op("resolve", j, gos[j].id, {gos[j].levels[lv].src.val}), ttl)

\* ---------------------------------------------------- the store and its readers
Init == InitWith(MaxGet, 0)

Next ==
    \/ \E g \in DOMAIN subs, id \in GetIds : GetCall(g, id)
    \/ \E g \in DOMAIN subs : GetSubscribe(g)
    \/ \E g \in DOMAIN subs : GetUnsubscribe(g)
    \/ \E e \in Entities, ct \in CacheTimes : Set(e, ct)
    \/ \E e \in Entities, ct \in CacheTimes : SetAsync(e, ct)
    \/ \E a \in Arrays, ct \in CacheTimes : SetMany(a, ct)
    \/ \E x \in Deletable : Delete(x)
    \/ Clear
    \/ \E id \in Ids : TimerFire(id)
    \/ Tick

Spec == Init /\ [][Next]_vars

NoOverflow == ~ovf

\* -------------------------------------------------------- claims on get and set
WriteOps == {"set", "setAsync", "setMany"}
Key(g) == getCacheKey(subs[g].id)
Listening(g) == subs[g].st = "subscribed"

\* C1: a subscriber of get(k) that is subscribed when a value-changing set
\* writes k receives the written value, also when k was deleted or had expired
\* before that set.
C1_EveryWriteReachesSubscribers ==
    (lastOp.op \in {"set", "setAsync"} /\ lastOp.new) =>
        \A g \in DOMAIN subs :
            (Listening(g) /\ Key(g) = getCacheKey(lastOp.id)) =>
                (subs[g].n = 1 /\ subs[g].last \in lastOp.vals)

\* C2: while k holds a value, a subscription to get(k) receives that value at
\* once, as the one value the subscription delivers.
C2_NewSubscriberReceivesValue ==
    (lastOp.op = "subscribe" /\ Present(getCacheKey(lastOp.id))) =>
        /\ subs[lastOp.who].st = "subscribed"
        /\ subs[lastOp.who].n = 1
        /\ subs[lastOp.who].last = ValueOf(getCacheKey(lastOp.id))

\* C3: a subscriber of get(k) has received nothing for as long as no set has
\* written k, whatever else the store was asked to do (delete, clear, timers).
C3_NeverWrittenYieldsNothing ==
    \A g \in DOMAIN subs :
        (Listening(g) /\ Key(g) \notin written) =>
            (subs[g].last = Undefined /\ subs[g].n = 0)

C3_Witness ==
    \E g \in DOMAIN subs :
        Listening(g) /\ Key(g) \notin written /\ lastOp.op = "delete"

\* C4: a write (set of a value, set of a stream, setMany) all of whose values
\* are the reference the key holds delivers nothing to the get subscribers.
C4_IdenticalWriteIsSilent ==
    [][(/\ lastOp'.op \in WriteOps
        /\ \E k \in Ids : Present(k) /\ lastOp'.vals = {ValueOf(k)})
       => \A g \in DOMAIN subs : subs'[g].n = 0]_vars

C4_Witness ==
    /\ lastOp.op \in WriteOps /\ ~lastOp.new
    /\ \E g \in DOMAIN subs :
          /\ Listening(g) /\ subs[g].cell = cache[Key(g)]
          /\ lastOp.vals = {subs[g].last} /\ subs[g].n = 0

\* The time T of the last set(e, T) call has elapsed and no timer is still due.
Elapsed == ttl.k # NoId /\ ttl.left = 0 /\ \A i \in Ids : pend[i] # 0

GosProducers == {Prod("sync", Str(1), 10, TRUE), Prod("sync", Str(1), 20, FALSE),
                 Prod("promise", Str(1), 30, TRUE), Prod("of", Str(1), 40, TRUE)}
GosIds == {Str(1)}
GosCacheTimes == {1}
GosEntities == {Ent(Str(1), 1)}
GosDeletable == {Str(1), Num(1)}

InitGos == InitWith(1, MaxGos)

NextGos ==
    \/ \E g \in DOMAIN subs, id \in GetIds : GetCall(g, id)
    \/ \E g \in DOMAIN subs : GetSubscribe(g)
    \/ \E g \in DOMAIN subs : GetUnsubscribe(g)
    \/ \E e \in GosEntities, ct \in GosCacheTimes : Set(e, ct)
    \/ \E x \in GosDeletable : Delete(x)
    \/ \E id \in Ids : TimerFire(id)
    \/ Tick
    \/ \E j \in DOMAIN gos, id \in GosIds, p \in GosProducers, ct \in GosCacheTimes :
            GosCall(j, id, p, ct)
    \/ \E j \in DOMAIN gos : GosSubscribe(j)
    \/ \E j \in DOMAIN gos : GosUnsubscribe(j)
    \/ \E j \in DOMAIN gos : PromiseResolve(j)

SpecGos == InitGos /\ [][NextGos]_vars

\* ------------------------------------------------------------ claims on getOrSet
GosKey(j) == getCacheKey(gos[j].id)
OnlyStream(j) == \A i \in DOMAIN gos : i # j => gos[i].st = "idle"

\* C6: a getOrSet call that finds k absent and gets a value from a synchronous
\* producer stores that value under k at the call, and every subscriber of
\* get(k) receives it.
C6_ResultStoredAndDelivered ==
    (lastOp.op = "getOrSet" /\ lastOp.new) =>
        LET v == ProducerResult(gos[lastOp.who].prod, inv - 1)
            k == getCacheKey(lastOp.id)
        IN  /\ ValueOf(k) = v
            /\ \A g \in DOMAIN subs :
                  (Listening(g) /\ Key(g) = k) => (subs[g].n = 1 /\ subs[g].last = v)

\* C7: a getOrSet call on a key that holds a value invokes no producer and
\* leaves the value and the timers as they are; subscribing to the stream it
\* returned while the key still holds a value delivers that value, once, and
\* invokes no producer either.
C7_PresentKeyUntouched ==
    [][/\ \A k \in Ids :
            (lastOp'.op = "getOrSet" /\ getCacheKey(lastOp'.id) = k /\ Present(k)) =>
                /\ inv' = inv
                /\ pend' = pend
                /\ ValueOf(k)' = ValueOf(k)
                /\ ~lastOp'.new
       /\ \A j \in DOMAIN gos :
            (/\ lastOp'.op = "subscribeGos" /\ lastOp'.who = j
             /\ Present(GosKey(j))
             /\ gos[j].levels[1].src = GetSrc(cache[GosKey(j)])
             /\ gos[j].levels[1].E = cache[GosKey(j)]) =>
                /\ inv' = inv
                /\ gos'[j].n = 1
                /\ gos'[j].last = ValueOf(GosKey(j))]_vars

C7_Witness ==
    /\ lastOp.op = "subscribeGos" /\ inv = 0
    /\ gos[lastOp.who].n = 1
    /\ gos[lastOp.who].last = ValueOf(getCacheKey(lastOp.id))
    /\ pend[Str(1)] = 0

\* C8: a subscriber of getOrSet(k, producer) that has received nothing is
\* waiting for the producer: once the producer has delivered, the subscriber
\* has a value or a retry is under way.
C8_CallerNotStuck ==
    \A j \in DOMAIN gos :
        (gos[j].st = "subscribed" /\ gos[j].last = Undefined) =>
            \E l \in DOMAIN gos[j].levels :
                gos[j].levels[l].ph = "src" /\ gos[j].levels[l].src.kind = "promise"

\* Stream j has delivered a value to its subscriber and no retry is under way.
Active(j) ==
    /\ gos[j].st = "subscribed"
    /\ Len(gos[j].levels) = 1
    /\ gos[j].levels[1].ph = "watch"
    /\ gos[j].last # Undefined

\* C10: when the key is deleted (by delete or by its timer) under the one
\* active getOrSet subscription, the producer is invoked once more, and its
\* result, unless it is the value the subscriber received last or is still a
\* pending promise, reaches the subscriber as the one value the delete delivers.
C10_DeleteRefreshesOnce ==
    [][\A j \in DOMAIN gos :
        (/\ Active(j) /\ OnlyStream(j) /\ Present(GosKey(j))
         /\ lastOp'.op \in {"delete", "expire"}
         /\ getCacheKey(lastOp'.id) = GosKey(j)) =>
            /\ inv' = inv + 1
            /\ gos'[j].n <= 1
            /\ LET v == ProducerResult(gos[j].prod, inv) IN
               (gos[j].prod.kind # "promise" /\ v # gos[j].last) =>
                    (gos'[j].n = 1 /\ gos'[j].last = v)]_vars

\* ------------------------------------------------- two concurrent getOrSet calls
\* The first call's producers, and the second call's.
ProducersA == {Prod("sync", Str(1), 10, TRUE), Prod("promise", Str(1), 20, TRUE),
               Prod("of", Str(1), 30, TRUE)}
ProducersB == {Prod("sync", Str(1), 50, TRUE), Prod("promise", Str(1), 60, TRUE),
               Prod("of", Str(1), 70, TRUE)}

InitConc == InitWith(1, MaxGos + 1)

NextConc ==
    \/ \E g \in DOMAIN subs, id \in GetIds : GetCall(g, id)
    \/ \E g \in DOMAIN subs : GetSubscribe(g)
    \/ \E p \in ProducersA, ct \in GosCacheTimes :
          gos[2].st = "idle" /\ GosCall(1, Str(1), p, ct)
    \/ \E j \in DOMAIN gos \ {1}, p \in ProducersB, ct \in GosCacheTimes :
          gos[1].st # "idle" /\ GosCall(j, Str(1), p, ct)
    \/ \E j \in DOMAIN gos : GosSubscribe(j)
    \/ \E j \in DOMAIN gos : PromiseResolve(j)

SpecConc == InitConc /\ [][NextConc]_vars

\* C9: of two getOrSet calls for an unset key, only the first call's producer
\* value is stored; no value of a later call's producer ever is.
C9_OnlyFirstProducerStored ==
    \A k \in Ids :
        Present(k) => \E p \in ProducersA, n \in 0..MaxInvoke :
                          ValueOf(k) = ProducerResult(p, n)
\* ---------------------------------------------------------- the store and getAll
AllEntities == {Ent(Str(1), 1), Ent(Str(2), 2), Ent(Str(2), 3)}
AllCacheTimes == {3}
AllDeletable == {Num(1), Ent(Str(1), 1)}
AllDeletableAsync == {Str(1)}

InitAll == InitOf(0, 0, MaxAll, 0)

NextAll ==
    \/ \E a \in DOMAIN all : AllSubscribe(a)
    \/ \E a \in DOMAIN all : AllUnsubscribe(a)
    \/ \E a \in DOMAIN all : DebounceFire(a)
    \/ \E e \in AllEntities, ct \in AllCacheTimes : Set(e, ct)
    \/ \E x \in AllDeletable : Delete(x)
    \/ \E x \in AllDeletableAsync : DeleteAsync(x)
    \/ Clear
    \/ Dispose
    \/ \E id \in Ids : TimerFire(id)
    \/ Tick

SpecAll == InitAll /\ [][NextAll]_vars

\* ----------------------------------------- the store and promises and streams
E1 == Ent(Str(1), 1)
E2 == Ent(Str(1), 2)
E3 == Ent(Str(2), 3)
SrcCacheTimes == {2}
SrcSetTimes == {1}
SrcArrays == {<<E1, E1>>, <<E1, E3>>, <<E2, E1>>}
\* what a source produces: entities for set, arrays for setMany, an id or an
\* entity for delete
SrcQueues(op) ==
    IF op = "set" THEN {<<E1>>, <<E1, E2>>}
    ELSE IF op = "setMany" THEN {<<a>> : a \in SrcArrays}
    ELSE {<<Str(1)>>, <<E1>>}
SrcKinds(queue, fails) ==
    IF Len(queue) = 1 /\ ~fails THEN {"promise", "stream"} ELSE {"stream"}

InitSrc == InitOf(0, 0, 0, MaxSrc)

NextSrc ==
    \/ \E e \in {E1}, ct \in SrcSetTimes : Set(e, ct)
    \/ \E a \in SrcArrays, ct \in SrcCacheTimes : SetMany(a, ct)
    \/ \E i \in DOMAIN srcs, op \in {"set", "setMany", "delete"}, fails \in BOOLEAN,
          ct \in SrcCacheTimes :
            \E q \in SrcQueues(op) : \E kind \in SrcKinds(q, fails) :
                AsyncCall(i, op, kind, q, fails, ct)
    \/ \E i \in DOMAIN srcs : AsyncSubscribe(i)
    \/ \E i \in DOMAIN srcs : SourceProduce(i)
    \/ \E i \in DOMAIN srcs : SourceFail(i)
    \/ \E i \in DOMAIN srcs : SourceDrop(i)
    \/ \E id \in Ids : TimerFire(id)
    \/ Tick

SpecSrc == InitSrc /\ [][NextSrc]_vars

\* ------------------------------------------- claims on setMany and on sources
\* The step applies an array: setMany(array, T), or an array that a promise or
\* stream delivers to the subscribed stream of setMany(source, T).
ArrayApplied ==
    /\ lastOp'.arr # <<>>
    /\ \/ lastOp'.op = "setMany"
       \/ \E i \in DOMAIN srcs :
            /\ lastOp'.who = i /\ srcs[i].op = "setMany"
            /\ \/ lastOp'.op = "produce" /\ srcs[i].st = "subscribed"
               \/ lastOp'.op = "subscribeSrc"

\* set(element, T) for each element of arr from the i-th on, in array order
RECURSIVE SetEach(_, _, _, _)
SetEach(s, arr, i, T) ==
    IF i > Len(arr) THEN s
    ELSE SetEach(setSync(s, arr[i], T, MaxDepth).s, arr, i + 1, T)

ValueIn(s, k) == IF s.cache[k] = NoCell THEN Undefined ELSE s.cells[s.cache[k]].value

\* The last element of arr with key k
LastOf(arr, k) ==
    arr[CHOOSE i \in DOMAIN arr :
            /\ getCacheKey(idAccessor(arr[i])) = k
            /\ \A j \in DOMAIN arr : getCacheKey(idAccessor(arr[j])) = k => j <= i]
KeysOf(arr) == {getCacheKey(idAccessor(arr[i])) : i \in DOMAIN arr}

\* The step hands an array to setMany: setMany(array, T), or a promise or
\* stream given to setMany(source, T) delivers one.
ArrayDelivered ==
    /\ lastOp'.arr # <<>>
    /\ \/ lastOp'.op = "setMany"
       \/ \E i \in DOMAIN srcs :
            lastOp'.who = i /\ srcs[i].op = "setMany" /\ lastOp'.op = "produce"

\* C17: after setMany(array, T), and after a promise or stream given to
\* setMany has delivered an array, every key of the array holds the array's
\* last element for it, under an eviction timer of T.
C17_SetManyAsSetOfEach ==
    [][ArrayDelivered =>
          \A k \in KeysOf(lastOp'.arr) :
              /\ ValueOf(k)' = LastOf(lastOp'.arr, k)
              /\ pend'[idAccessor(LastOf(lastOp'.arr, k))] = lastOp'.ct]_vars

\* What does hold: an array that is applied leaves the values and the timers
\* as set() of each element in array order does; every key of the array holds
\* the array's last element for it, under a timer of T if that element was not
\* the value of the key before.
SetManyIsSetOfEach ==
    [][ArrayApplied =>
          /\ \A k \in Ids :
                ValueOf(k)' = ValueIn(SetEach(Store, lastOp'.arr, 1, lastOp'.ct), k)
          /\ pend' = SetEach(Store, lastOp'.arr, 1, lastOp'.ct).pend
          /\ \A k \in KeysOf(lastOp'.arr) :
                /\ ValueOf(k)' = LastOf(lastOp'.arr, k)
                /\ ValueOf(k) # LastOf(lastOp'.arr, k) =>
                      pend'[idAccessor(LastOf(lastOp'.arr, k))] = lastOp'.ct]_vars

\* C18: when the promise or stream given to set, setMany or delete produces a
\* value, the value is applied to the store then: the written keys hold the
\* entities, the deleted key is absent, subscriber of the returned stream or not.
C18_SourceValueAppliedAtOnce ==
    lastOp.op = "produce" =>
        IF srcs[lastOp.who].op = "delete"
        THEN ~Present(getCacheKey(lastOp.id))
        ELSE \A k \in KeysOf(lastOp.arr) : ValueOf(k) = LastOf(lastOp.arr, k)

\* C20: when the stream given to set, setMany or delete fails, the subscriber
\* of the returned stream gets the error (at once, or when it subscribes to a
\* source that has failed), the failure changes no value and no timer of the
\* store, and the failed stream stays failed: its source is not tried again.
C20_FailureDeliveredNoRollback ==
    [][\A i \in DOMAIN srcs :
        /\ (lastOp'.op = "fail" /\ lastOp'.who = i) =>
              /\ srcs[i].st = "subscribed" => srcs'[i].st = "error"
              /\ \A k \in Ids : ValueOf(k)' = ValueOf(k)
              /\ pend' = pend
              /\ srcs'[i].applied = srcs[i].applied
        /\ (lastOp'.op = "subscribeSrc" /\ lastOp'.who = i /\ srcs[i].failed) =>
              srcs'[i].st = "error"
        /\ srcs[i].st = "error" =>
              /\ srcs'[i].st \in {"error", "idle"}
              /\ srcs'[i].n = 0
              /\ srcs'[i].st = "error" => srcs'[i].applied = srcs[i].applied]_vars

C20_Witness ==
    /\ lastOp.op = "fail"
    /\ srcs[lastOp.who].st = "error" /\ srcs[lastOp.who].op = "set"
    /\ srcs[lastOp.who].applied = {E1, E2}
    /\ ValueOf(Str(1)) = E2 /\ pend[Str(1)] > 0

\* ------------------------------------------------ the configured store
\* new EntityStore(config), with and without a default cache time
PartialConfigs == {<<>>, [defaultCacheTIme |-> 1]}
CfgProducers == {Prod("sync", Str(2), 10, TRUE)}

InitCfg == \E cfg \in PartialConfigs : construct(cfg, 0, MaxGos, 0, 0)

NextCfg ==
    \/ \E e \in {E1, E2} : SetDefault(e)
    \/ \E a \in {<<E1, E3>>} : SetManyDefault(a)
    \/ \E e \in {E1}, ct \in SrcCacheTimes : Set(e, ct)
    \/ \E x \in {Str(1), Str(2)} : Delete(x)
    \/ \E j \in DOMAIN gos, p \in CfgProducers : GosCallDefault(j, p.id, p)
    \/ \E j \in DOMAIN gos : GosUnsubscribe(j)

SpecCfg == InitCfg /\ [][NextCfg]_vars

\* C19: a key that set, setMany or getOrSet writes in a call without a cacheTime
\* argument has its eviction timer armed with the default cache time of the
\* store's configuration (600000 ms when the configuration gives none).
C19_ConfiguredDefaultArmsTimer ==
    [][lastOp'.op \in {"setDefault", "setManyDefault", "getOrSetDefault"} =>
          \A k \in Ids :
              (ValueOf(k)' # Undefined /\ ValueOf(k)' # ValueOf(k)) =>
                  pend'[idAccessor(ValueOf(k)')] = config.defaultCacheTIme]_vars

\* ------------------------------------------------------------- claims on getAll
\* The entities the store holds: the values of the keys that are present.
PresentEntities == {ValueOf(k) : k \in {i \in Ids : Present(i)}}

\* C11: subscribing to getAll delivers at once, within the subscribe call, one
\* snapshot: exactly the entities present at that moment (none on a store
\* without a present key).
C11_SubscriptionEmitsAtOnce ==
    lastOp.op = "subscribeAll" =>
        /\ all[lastOp.who].n = 1
        /\ all[lastOp.who].snap = PresentEntities

\* C12: the set calls of a burst (for distinct keys that were absent, one after
\* another within one debounce window) have, when the window closes, delivered
\* exactly one snapshot to a getAll subscriber, and it holds all their entities.
C12_BurstEmitsOnce ==
    burst.st = "closed" =>
        \A a \in DOMAIN all :
            /\ burst.n[a] = 1
            /\ burst.ents \subseteq all[a].snap

\* C13: the first snapshot a getAll subscriber receives after delete has removed
\* an entity (given as entity or key, directly or through a stream) does not
\* hold that entity, unless it was set again.
C13_DeletedNotInNextSnapshot ==
    \A a \in DOMAIN all : all[a].n > 0 => all[a].snap \cap gone = {}

\* C14: after clear() no key is present, the map has no cell, no eviction timer
\* is armed, and the call has posted one signal on updateStream.
C14_ClearEmptiesStore ==
    lastOp.op = "clear" =>
        /\ \A k \in Ids : ~Present(k) /\ cache[k] = NoCell /\ pend[k] = NoTimer
        /\ sig = 1
        /\ ~threw

C14_Witness ==
    /\ lastOp.op = "clear" /\ sig = 1 /\ cache = [k \in Ids |-> NoCell]
    /\ Cardinality(written) = 2
    /\ \E a \in DOMAIN all :
          /\ all[a].st = "subscribed" /\ Cardinality(all[a].snap) = 2
          /\ all[a].deb = HUMAN_REACTION_TIME

\* The store holds nothing: no cell in the map, no timer.
Empty == \A k \in Ids : cache[k] = NoCell /\ pend[k] = NoTimer

\* C15: a clear() or dispose() that comes straight after a clear() or a
\* dispose() raises no error, and the store is empty after it (as it is after
\* the first of the two calls).
C15_RepeatedTeardownIsQuiet ==
    [][(lastOp'.op \in {"clear", "dispose"}) =>
          /\ Empty'
          /\ lastOp.op \in {"clear", "dispose"} => ~threw']_vars

C15_Witness ==
    /\ lastOp.op = "dispose" /\ bus = "stopped" /\ ~threw /\ Empty
    /\ written = {}
    /\ \E a \in DOMAIN all : all[a].st = "done" /\ all[a].n = 0

\* C16: dispose() ends every getAll subscription, which receives at most one
\* more snapshot, an empty one, within the call and nothing afterwards; a getAll
\* subscription made on the disposed store while it holds no entity receives
\* one snapshot, the empty one, and is complete.
C16_DisposeClosesGetAll ==
    [][\A a \in DOMAIN all :
        /\ (lastOp'.op = "dispose" /\ all[a].st = "subscribed") =>
              /\ all'[a].st = "done"
              /\ all'[a].n <= 1
              /\ all'[a].n = 1 => all'[a].snap = {}
        /\ all[a].st = "done" =>
              /\ all'[a].st \in {"done", "idle"}
              /\ all'[a].n = 0
        /\ (/\ lastOp'.op = "subscribeAll" /\ lastOp'.who = a
            /\ bus = "stopped" /\ PresentEntities = {}) =>
              /\ all'[a].st = "done"
              /\ all'[a].n = 1
              /\ all'[a].snap = {}]_vars

C16_Witness ==
    /\ lastOp.op = "subscribeAll" /\ bus = "stopped" /\ written # {}
    /\ all[lastOp.who].st = "done" /\ all[lastOp.who].n = 1
    /\ all[lastOp.who].snap = {}

C11_Witness ==
    /\ lastOp.op = "subscribeAll" /\ all[lastOp.who].n = 1
    /\ Cardinality(all[lastOp.who].snap) = 2
    /\ \E a \in DOMAIN all : all[a].deb = NoTimer /\ bus = "open"

\* ------------------------------------ writers of one key: values, promises, streams
WriteTimes == {DEFAULT_CACHE_TIME}
\* what a promise or stream hands to set (entities) and to setMany (arrays)
WriteQueues(op) ==
    IF op = "set" THEN {<<E2>>, <<E2, E1>>} ELSE {<<<<E1, E2>>>>, <<<<E2, E3>>>>}

InitWrite == InitOf(MaxGet, 0, 0, MaxSrc)

NextWrite ==
    \/ \E g \in DOMAIN subs, id \in GetIds : GetCall(g, id)
    \/ \E g \in DOMAIN subs : GetSubscribe(g)
    \/ \E g \in DOMAIN subs : GetUnsubscribe(g)
    \/ \E e \in {E1, E2}, ct \in WriteTimes : Set(e, ct)
    \/ \E x \in {Str(1)} : Delete(x)
    \/ \E i \in DOMAIN srcs, op \in {"set", "setMany"}, ct \in WriteTimes :
          \E q \in WriteQueues(op) : \E kind \in SrcKinds(q, FALSE) :
              AsyncCall(i, op, kind, q, FALSE, ct)
    \/ \E i \in DOMAIN srcs : AsyncSubscribe(i)
    \/ \E i \in DOMAIN srcs : SourceProduce(i)
    \/ \E i \in DOMAIN srcs : SourceDrop(i)

SpecWrite == InitWrite /\ [][NextWrite]_vars

\* The step is the delivery of a write for key k by its source: a set or setMany
\* call with a bare value, or a promise or stream given to set or setMany
\* producing a value.
Delivers(k) ==
    /\ \/ lastOp'.op \in {"set", "setMany"}
       \/ lastOp'.op = "produce" /\ srcs[lastOp'.who].op \in {"set", "setMany"}
    /\ \E e \in lastOp'.vals : getCacheKey(idAccessor(e)) = k

\* ... and the entity it delivers for k (the last one of an array)
DeliveredFor(k) ==
    IF lastOp'.arr = <<>>
    THEN CHOOSE e \in lastOp'.vals : getCacheKey(idAccessor(e)) = k
    ELSE LastOf(lastOp'.arr, k)

\* C21: the writes of a key are applied as their sources deliver them: a step
\* in which a bare value, a promise or a stream delivers a write for the key
\* leaves the key with that value, and no other step but a delete changes the
\* key's value; a get subscriber that is new (its stream is on the key's
\* cell) receives the key's value, the last write.
C21_LastWriteWins ==
    [][\A k \in {Str(1), Str(2)} :
          /\ Delivers(k) => ValueOf(k)' = DeliveredFor(k)
          /\ (~Delivers(k) /\ lastOp'.op # "delete") => ValueOf(k)' = ValueOf(k)
          /\ \A g \in DOMAIN subs :
                (/\ lastOp'.op = "subscribe" /\ lastOp'.who = g /\ Key(g) = k
                 /\ subs[g].cell = cache[k] /\ Present(k)) =>
                    (subs'[g].n = 1 /\ subs'[g].last = ValueOf(k))]_vars

\* ------------------------------------------------- the stream that set returns
\* setSync's return this.get(id), kept by the caller as observable g
Returned(w, g, id) ==
    [w.s EXCEPT !.subs[g] = [st |-> "called", id |-> id, cell |-> w.ref,
                             last |-> Undefined, n |-> 0]]

\* stream = store.set(entity, cacheTime)
SetCall(g, entity, cacheTime) ==
    /\ ~ovf /\ subs[g].st = "idle"
    /\ Commit(Returned(setSync(Store, entity, cacheTime, MaxDepth), g, idAccessor(entity)),
              Op("set", g, idAccessor(entity), {entity}),
              [k |-> getCacheKey(idAccessor(entity)), left |-> cacheTime, new |-> FALSE])

SetEntities == {E1, E2, Ent(Num(1), 3)}
SetTimes == {2}

InitSet == InitWith(MaxGet, 0)

NextSet ==
    \/ \E g \in DOMAIN subs, e \in SetEntities, ct \in SetTimes : SetCall(g, e, ct)
    \/ \E g \in DOMAIN subs : GetSubscribe(g)
    \/ \E g \in DOMAIN subs : GetUnsubscribe(g)
    \/ \E e \in SetEntities, ct \in SetTimes : Set(e, ct)
    \/ \E x \in {Str(1)} : Delete(x)
    \/ \E id \in Ids : TimerFire(id)
    \/ Tick

SpecSet == InitSet /\ [][NextSet]_vars

\* C22: the stream that set(e) returned delivers the value of e's key at once
\* when it is subscribed to while the key holds one, and its subscriber
\* receives every later write that changes the value of e's key.
C22_SetStreamFollowsKey ==
    \A g \in DOMAIN subs :
        /\ (lastOp.op = "subscribe" /\ lastOp.who = g /\ Present(Key(g))) =>
              (subs[g].n = 1 /\ subs[g].last = ValueOf(Key(g)))
        /\ (/\ lastOp.op = "set" /\ lastOp.new
            /\ Listening(g) /\ Key(g) = getCacheKey(lastOp.id)) =>
              (subs[g].n = 1 /\ subs[g].last \in lastOp.vals)

\* ------------------------------------------------------- the store factory
\* this.stores.get(config.id)
storesGetNothing(m, id) == NoStore
storesGet(m, id) == m[id]

\* getStore(config): the store of config.id, constructed when there is none
getStore(f, request) ==
    LET store == storesGet(f.stores, request.id) IN
    IF store = NoStore
    THEN LET made == NewStore(f.built + 1, request.cfg) IN
         [stores |-> [f.stores EXCEPT ![request.id] = made],
          built |-> f.built + 1, store |-> made]
    ELSE [stores |-> f.stores, built |-> f.built, store |-> store]

\* what the run has become when getStore has returned r
Resolved(r, request) ==
    /\ stores' = r.stores
    /\ built' = r.built
    /\ lastOp' = Op("getStore", r.store.n, request.id, {})
    /\ UNCHANGED <<cache, cells, pend, subs, gos, inv, ovf, written, ttl,
                   all, bus, sig, threw, burst, gone, srcs, config>>

\* store = factory.getStore(request)
Requests == [id : FactoryIds, cfg : PartialConfigs]

GetStore(request) ==
    /\ request.id \in DOMAIN stores
    /\ Resolved(getStore([stores |-> stores, built |-> built], request), request)

InitFactory == InitOf(0, 0, 0, 0)

NextFactory == \E request \in Requests : GetStore(request)

SpecFactory == InitFactory /\ [][NextFactory]_vars

\* C23: getStore returns, for an id it has a store for, that store, and
\* constructs nothing; for any other id it constructs one store, an object
\* that no other id has; the stores of the other ids stay as they are.
C23_OneStorePerId ==
    [][lastOp'.op = "getStore" =>
          LET id == lastOp'.id
              returned == lastOp'.who
          IN  /\ stores'[id].n = returned
              /\ stores[id] # NoStore => (stores'[id] = stores[id] /\ built' = built)
              /\ stores[id] = NoStore => built' = built + 1
              /\ \A j \in FactoryIds \ {id} :
                    stores'[j] = stores[j] /\ stores'[j].n # returned]_vars

C23_Witness ==
    /\ lastOp.op = "getStore" /\ built = 2
    /\ lastOp.who = 1 /\ stores[lastOp.id].n = 1
    /\ \E j \in FactoryIds : stores[j].n = 2 /\ getCacheKey(j) = getCacheKey(lastOp.id)

\* ---------------------------------------------------- claims on eviction timers
\* C24: a timer that fires on a key which the last set(e, T) call gave a new
\* value, and which still holds a value, fires when T has elapsed since that
\* call, not before: no timer of an earlier write evicts the newer value.
C24_NoEvictionBeforeT ==
    [][(/\ lastOp'.op = "expire"
        /\ ttl.k = getCacheKey(lastOp'.id) /\ ttl.new
        /\ Present(ttl.k)) => ttl.left = 0]_vars

\* ------------------------------------ the store under text and integer ids
\* Entities, ids and producers with the key "1" in its two forms, 1 and "1"
KeyEntities == {Ent(Str(1), 1), Ent(Num(1), 3)}
KeyIds == {Str(1), Num(1)}
KeyTimes == {2}
KeyGosTimes == {1}
KeyArrays == {<<Ent(Str(1), 1), Ent(Num(1), 3)>>}
KeyDeletable == {Str(1), Num(1), Ent(Num(1), 3)}
KeyProducers == {Prod("sync", Num(1), 10, FALSE), Prod("sync", Str(1), 20, FALSE)}

InitKey == InitWith(0, MaxGos)

NextKey ==
    \/ \E e \in KeyEntities, ct \in KeyTimes : Set(e, ct)
    \/ \E a \in KeyArrays, ct \in KeyTimes : SetMany(a, ct)
    \/ \E x \in KeyDeletable : Delete(x)
    \/ Clear
    \/ \E j \in DOMAIN gos, p \in KeyProducers, ct \in KeyGosTimes :
            GosCall(j, p.id, p, ct)
    \/ \E j \in DOMAIN gos : GosSubscribe(j)
    \/ \E j \in DOMAIN gos : GosUnsubscribe(j)
    \/ \E id \in Ids : TimerFire(id)
    \/ Tick

SpecKey == InitKey /\ [][NextKey]_vars

\* ... and with get observables, time standing still
InitCell == InitWith(MaxGet, MaxGos)

NextCell ==
    \/ \E g \in DOMAIN subs, id \in KeyIds : GetCall(g, id)
    \/ \E g \in DOMAIN subs : GetUnsubscribe(g)
    \/ \E e \in KeyEntities, ct \in KeyTimes : Set(e, ct)
    \/ \E x \in KeyIds : Delete(x)
    \/ Clear
    \/ \E j \in DOMAIN gos, p \in KeyProducers, ct \in KeyGosTimes :
            GosCall(j, p.id, p, ct)
    \/ \E j \in DOMAIN gos : GosSubscribe(j)
    \/ \E j \in DOMAIN gos : GosUnsubscribe(j)

SpecCell == InitCell /\ [][NextCell]_vars

\* The ids of the normalized key k that have an armed timer
Armed(k) == {i \in Ids : getCacheKey(i) = k /\ pend[i] # NoTimer}

\* C25: every id with an armed eviction timer has, under its normalized key, a
\* cell in the map that holds a value.
C25_TimerOnlyForPresentKey ==
    \A i \in Ids : pend[i] # NoTimer => Present(getCacheKey(i))

\* C26: every key whose cell in the map holds a value has an armed eviction
\* timer (under one of its id forms), also after a delete or an expiry under
\* which a getOrSet subscriber has written the key again.
C26_PresentKeyHasTimer ==
    \A k \in Ids : Present(k) => Armed(k) # {}

\* C27: a normalized key has at most one armed eviction timer, whether its
\* writes and deletes name it by the integer or by the text.
C27_OneTimerPerKey ==
    \A k \in Ids : Cardinality(Armed(k)) <= 1

\* C29: when delete(x) has returned (x a text id, an integer id or an entity),
\* the map has no cell for the normalized key of x.
C29_DeleteLeavesNoCell ==
    lastOp.op = "delete" =>
        \A i \in Ids : getCacheKey(i) = getCacheKey(lastOp.id) => cache[i] = NoCell

\* The canonical text form of an id: the text "n" for the integer n
Normalized(id) == Str(id.v)

\* C28: no two entries of the map have the same normalized key, and get, set,
\* getOrSet and delete of an id, integer or text, act on the one cell of its
\* normalized key: get and getOrSet capture it, set leaves its value in it,
\* delete (unless a getOrSet subscriber writes the key again) leaves it absent.
C28_OneCellPerKey ==
    [][LET id == lastOp'.id
           who == lastOp'.who
           cell == cache'[Normalized(id)]
       IN  /\ \A i, j \in Ids :
                 (cache'[i] # NoCell /\ cache'[j] # NoCell /\ Normalized(i) = Normalized(j))
                     => i = j
           /\ lastOp'.op = "get" => (cell # NoCell /\ subs'[who].cell = cell)
           /\ (lastOp'.op = "set" /\ lastOp'.new) =>
                 (cell # NoCell /\ cells'[cell].value \in lastOp'.vals)
           /\ (lastOp'.op = "getOrSet" /\ ~ovf') =>
                 (cell # NoCell /\ gos'[who].levels[1].E = cell)
           /\ (lastOp'.op = "delete" /\ ~lastOp'.new) =>
                 (cell = NoCell \/ cells'[cell].value = Undefined)]_vars

C28_Witness ==
    /\ lastOp.op = "get" /\ lastOp.id = Num(1)
    /\ subs[lastOp.who].cell = cache[Str(1)]
    /\ Present(Str(1)) /\ idAccessor(ValueOf(Str(1))) = Str(1)
    /\ \E j \in DOMAIN gos : gos[j].st = "subscribed" /\ gos[j].id = Num(1)

\* C30: a snapshot that a getAll subscriber receives holds only entities that
\* are present when it is delivered, each as the current value of its key.
C30_SnapshotHoldsPresentOnly ==
    \A a \in DOMAIN all :
        all[a].n > 0 =>
            \A e \in all[a].snap :
                Present(getCacheKey(idAccessor(e))) /\ ValueOf(getCacheKey(idAccessor(e))) = e

\* ================================================ getAll and the debounce
\* C31: a getAll subscriber receives snapshots only from the debounce: a set,
\* also one that changes the value of a key of the last snapshot, delivers no
\* snapshot itself and leaves the debounce timer at 200 ms, and the firing of
\* the timer delivers exactly one snapshot.
C31_OnlyDebouncedEmissions ==
    \A a \in DOMAIN all :
        all[a].st = "subscribed" =>
            /\ (lastOp.op = "set" /\ lastOp.new) =>
                   (all[a].n = 0 /\ all[a].deb = HUMAN_REACTION_TIME)
            /\ lastOp.op = "debounce" => all[a].n = 1

\* C32: a getAll subscriber of a store that is not disposed and has no debounce
\* timer running (the operations have stopped for one debounce window) holds as
\* its last snapshot exactly the present entities; a running debounce timer
\* fires within 200 ms.
C32_QuiescentSnapshotIsStore ==
    \A a \in DOMAIN all :
        (all[a].st = "subscribed" /\ bus = "open") =>
            /\ all[a].deb \in {NoTimer} \cup (0..HUMAN_REACTION_TIME)
            /\ all[a].deb = NoTimer => all[a].snap = PresentEntities

C32_Witness ==
    /\ lastOp.op = "debounce" /\ bus = "open"
    /\ \E a \in DOMAIN all :
          /\ all[a].st = "subscribed" /\ all[a].deb = NoTimer
          /\ all[a].snap = {Ent(Str(2), 3)}
    /\ ~Present(Str(1)) /\ Str(1) \in written

\* ========================================== getOrSet: the retry after a delete
\* C33: when a delete of k, or the expiry of k, has made an active getOrSet
\* subscription for k retry and deliver the new producer result, then after
\* that delete k is present and its stored value (what a new get(k) subscriber
\* receives) is the value the getOrSet subscriber received last.
C33_RetriedValueIsStored ==
    [][\A j \in DOMAIN gos :
        (/\ Active(j)
         /\ lastOp'.op \in {"delete", "expire"}
         /\ getCacheKey(lastOp'.id) = GosKey(j)
         /\ inv' = inv + 1
         /\ gos'[j].n = 1) =>
            /\ Present(GosKey(j))'
            /\ ValueOf(GosKey(j))' = gos'[j].last]_vars

\* ------------------------------ getOrSet and a subscriber that deletes the key
\* Producers that return a new object at each call: a function of the entity
\* and one of the stream of(entity); and one that returns the same object.
RaceProducers == {Prod("sync", Str(1), 10, TRUE), Prod("of", Str(1), 40, TRUE),
                  Prod("sync", Str(1), 20, FALSE)}
RaceDeletable == {Str(1)}

InitRace == InitWith(1, MaxGos)

NextRace ==
    \/ \E g \in DOMAIN subs, id \in GosIds : GetCall(g, id)
    \/ \E g \in DOMAIN subs : GetSubscribe(g)
    \/ \E g \in DOMAIN subs : GetUnsubscribe(g)
    \/ \E e \in GosEntities, ct \in GosCacheTimes : Set(e, ct)
    \/ \E x \in RaceDeletable : Delete(x)
    \/ \E id \in Ids : TimerFire(id)
    \/ Tick
    \/ \E j \in DOMAIN gos, id \in GosIds, p \in RaceProducers, ct \in GosCacheTimes :
            GosCall(j, id, p, ct)
    \/ \E j \in DOMAIN gos, id \in GosIds, p \in RaceProducers, ct \in GosCacheTimes :
            GosCallDeleting(j, id, p, ct)
    \/ \E j \in DOMAIN gos : GosSubscribe(j)
    \/ \E j \in DOMAIN gos : GosUnsubscribe(j)

SpecRace == InitRace /\ [][NextRace]_vars

\* C34: the retry of getOrSet has no bound. When a delete of k follows every
\* write of k that a getOrSet call makes (it is the one getOrSet stream, its
\* subscriber deletes k at every value it receives, and the producer returns a
\* new object each time), the producer is re-invoked at every turn and the call
\* does not settle: the recursion ends only when the call stack is exhausted.
C34_RetryHasNoBound ==
    [][\A j \in DOMAIN gos :
        (/\ lastOp'.op = "getOrSetSubscribe" /\ lastOp'.who = j
         /\ OnlyStream(j)
         /\ gos'[j].prod.fresh) =>
            (ovf' /\ inv' > inv /\ gos'[j].n >= 2)]_vars

C34_Witness ==
    /\ lastOp.op = "getOrSetSubscribe" /\ ovf /\ inv >= 2
    /\ \E j \in DOMAIN gos :
          /\ gos[j].deletes /\ gos[j].prod.kind = "sync" /\ gos[j].n = 2
          /\ gos[j].last = ProducerResult(gos[j].prod, inv - 1)

\* ------------------------------------ getOrSet and a producer stream of values
\* Producers: one that returns, at each call, a new stream that emits several
\* entities of the key over time, and a function of the entity.
StreamProducers == {Prod("stream", Str(1), 10, TRUE), Prod("sync", Str(1), 30, TRUE)}

InitStream == InitWith(1, MaxGos)

NextStream ==
    \/ \E g \in DOMAIN subs, id \in GosIds : GetCall(g, id)
    \/ \E g \in DOMAIN subs : GetSubscribe(g)
    \/ \E g \in DOMAIN subs : GetUnsubscribe(g)
    \/ \E e \in GosEntities, ct \in GosCacheTimes : Set(e, ct)
    \/ \E x \in RaceDeletable : Delete(x)
    \/ \E id \in Ids : TimerFire(id)
    \/ Tick
    \/ \E j \in DOMAIN gos, id \in GosIds, p \in StreamProducers, ct \in GosCacheTimes :
            GosCall(j, id, p, ct)
    \/ \E j \in DOMAIN gos : GosSubscribe(j)
    \/ \E j \in DOMAIN gos : GosUnsubscribe(j)
    \/ \E j \in DOMAIN gos : StreamEmit(j)

SpecStream == InitStream /\ [][NextStream]_vars

\* C35: a getOrSet call applies only the first value that its producer's stream
\* delivers: a later emission of that stream writes nothing to the store (no
\* cell, value or timer changes and no subscriber receives a value).
C35_OnlyFirstEmissionApplied ==
    [][\A j \in DOMAIN gos :
        (/\ lastOp'.op = "emit" /\ lastOp'.who = j
         /\ gos[j].stream.out >= 1) =>
            /\ ~lastOp'.new
            /\ cache' = cache /\ cells' = cells /\ pend' = pend
            /\ gos'[j].n = 0 /\ gos'[j].last = gos[j].last]_vars

C35_Witness ==
    /\ lastOp.op = "emit" /\ ~lastOp.new
    /\ \E j \in DOMAIN gos :
          /\ gos[j].stream.out = 2 /\ gos[j].stream.sub = 0
          /\ gos[j].last = gos[j].stream.val
          /\ Present(GosKey(j)) /\ ValueOf(GosKey(j)) = gos[j].stream.val
          /\ lastOp.vals = {StreamValue(gos[j].stream.val, 2)}

\* ------------------------- getOrSet and a producer of an entity of another key
\* Producers whose entity has the key asked for, "1", and producers whose
\* entity has another key, "2": functions of the entity, of a promise and of
\* the stream of(entity). No delete, clear or expiry happens.
OtherProducers == {Prod("sync", Str(1), 10, TRUE), Prod("promise", Str(1), 20, TRUE),
                   Prod("sync", Str(2), 30, TRUE), Prod("promise", Str(2), 40, TRUE),
                   Prod("of", Str(2), 50, TRUE)}
OtherIds == {Str(1), Str(2)}

InitOther == InitWith(1, MaxGos)

NextOther ==
    \/ \E g \in DOMAIN subs, id \in OtherIds : GetCall(g, id)
    \/ \E g \in DOMAIN subs : GetSubscribe(g)
    \/ \E g \in DOMAIN subs : GetUnsubscribe(g)
    \/ \E e \in GosEntities, ct \in GosCacheTimes : Set(e, ct)
    \/ \E j \in DOMAIN gos, id \in GosIds, p \in OtherProducers, ct \in GosCacheTimes :
            GosCall(j, id, p, ct)
    \/ \E j \in DOMAIN gos : GosSubscribe(j)
    \/ \E j \in DOMAIN gos : GosUnsubscribe(j)
    \/ \E j \in DOMAIN gos : PromiseResolve(j)

SpecOther == InitOther /\ [][NextOther]_vars

\* C36: without a delete, clear or expiry, a getOrSet call invokes its producer
\* at most once, when it is called, and settles: subscribing to it and the
\* resolution of its promise invoke no producer, do not exhaust the call stack
\* and, once the producer's result is there, the subscriber has a value -
\* whatever the key of the producer's entity is.
C36_ProducerOnceAndSettles ==
    [][\A j \in DOMAIN gos :
        /\ (lastOp'.op = "getOrSet" /\ lastOp'.who = j) => inv' <= inv + 1
        /\ (lastOp'.op \in {"subscribeGos", "resolve"} /\ lastOp'.who = j) =>
               /\ inv' = inv /\ ~ovf'
               /\ (gos[j].prod.kind # "promise" \/ lastOp'.op = "resolve") =>
                      gos'[j].last # Undefined]_vars

\* ==================================================== the identical set
\* C37: a set of the reference that is the current value of its key posts no
\* signal on updateStream and leaves every eviction timer as it is: the key
\* keeps the deadline of the earlier set that changed its value, whatever
\* cacheTime the identical set passes.
C37_IdenticalSetKeepsDeadline ==
    [][(/\ lastOp'.op = "set"
        /\ Present(getCacheKey(lastOp'.id))
        /\ lastOp'.vals = {ValueOf(getCacheKey(lastOp'.id))})
       => (sig' = 0 /\ pend' = pend /\ ~lastOp'.new)]_vars

C37_Witness ==
    /\ lastOp.op = "set" /\ ~lastOp.new /\ sig = 0
    /\ Present(getCacheKey(lastOp.id))
    /\ lastOp.vals = {ValueOf(getCacheKey(lastOp.id))}
    /\ pend[lastOp.id] = 2 /\ ttl.left = 1
====
